---- MODULE Spec2Model ----
(***************************************************************************)
(* Beans Bank: the ledger and escrow engine.                               *)
(*                                                                         *)
(* The store is a relational database with transactions and row locks     *)
(* (SELECT ... FOR UPDATE).  A transaction's writes become visible at its  *)
(* commit; a row lock is held until the transaction commits or rolls       *)
(* back.  Every service call is run by a request process; a process step   *)
(* is one call, one lock acquisition, or the tail of a transaction up to   *)
(* and including its commit.                                               *)
(***************************************************************************)
EXTENDS Integers, Sequences, FiniteSets, TLC

\* ------------------------------------------------------------------ bounds
MaxAmount == 1       \* largest amount, reward or admin balance a caller passes
MaxLedger == 3       \* ledger entries recorded before appending calls stop
MaxLinks == 1        \* gift links that can be created
MaxHarvests == 1     \* harvests that can be created
MaxTime == 2         \* clock ticks (hours)
MaxTokens == 1       \* API tokens that can be issued

Names == {"alice", "bob", "system"}
Procs == {"p1", "p2"}
NoProc == "none"
NoUser == "nobody"
NoTime == -1

Amounts == 0..MaxAmount
Codes == 1..MaxLinks
HarvestIDs == 1..MaxHarvests

VARIABLES
    users,        \* table users: username -> [exists, BeanAmount]
    ledger,       \* table transactions, in insertion order
    giftLinks,    \* table gift_links: code -> row
    harvests,     \* table harvests: id -> row
    now,          \* time.Now(), in hours
    userLock,     \* username -> process holding the row lock
    linkLock,     \* code -> process holding the row lock
    harvestLock,  \* id -> process holding the row lock
    pc,           \* process -> position in its call
    op,           \* process -> the call it is running
    xfer,         \* process -> parameters of the transfer in progress
    local,        \* process -> rows read by the call in progress
    last,         \* the call that returned last, and the error it returned
    tokens,       \* table api_tokens, in insertion order (id = position)
    export        \* the export document last handed to a client

dbvars == <<users, ledger, giftLinks, harvests>>
lockvars == <<userLock, linkLock, harvestLock>>
procvars == <<pc, op, xfer, local, last>>
othervars == <<tokens, export>>
vars == <<users, ledger, giftLinks, harvests, now, userLock, linkLock,
          harvestLock, pc, op, xfer, local, last, tokens, export>>

\* ------------------------------------------------------------------ rows
NoRow == [exists |-> FALSE, BeanAmount |-> 0]

NoLink == [exists |-> FALSE, FromUser |-> NoUser, Amount |-> 0,
           ExpiresAt |-> NoTime, RedeemedAt |-> NoTime,
           RedeemedBy |-> NoUser, Active |-> FALSE]

NoHarvest == [exists |-> FALSE, Title |-> "", BeanAmount |-> 0,
              AssignedUserID |-> NoUser, Completed |-> FALSE]

NoXfer == [fromUsername |-> NoUser, toUsername |-> NoUser, amount |-> 0,
           force |-> FALSE]

NoLocal == [fromBeans |-> 0, toBeans |-> 0, username |-> NoUser, id |-> 0,
            amount |-> 0, expiry |-> NoTime, giftLink |-> NoLink,
            title |-> "", harvest |-> NoHarvest, expiresIn |-> 0,
            token |-> [alg |-> "", Username |-> NoUser, iat |-> NoTime,
                       exp |-> NoTime, sig |-> <<>>]]

NoCall == [op |-> "none", result |-> "none"]

\* No JWT.
NoToken == [alg |-> "", Username |-> NoUser, iat |-> NoTime, exp |-> NoTime,
            sig |-> <<>>]

\* No export document yet.
NoExport == [exists |-> FALSE]

RECURSIVE SumOver(_, _)
SumOver(u, S) ==
    IF S = {} THEN 0
    ELSE LET n == CHOOSE x \in S : TRUE
         IN (IF u[n].exists THEN u[n].BeanAmount ELSE 0) + SumOver(u, S \ {n})

\* SELECT COALESCE(SUM(bean_amount), 0) FROM users
GetTotalBeans(u) == SumOver(u, Names)

Init ==
    /\ users = [n \in Names |-> NoRow]
    /\ ledger = <<>>
    /\ giftLinks = [c \in Codes |-> NoLink]
    /\ harvests = [h \in HarvestIDs |-> NoHarvest]
    /\ now = 0
    /\ userLock = [n \in Names |-> NoProc]
    /\ linkLock = [c \in Codes |-> NoProc]
    /\ harvestLock = [h \in HarvestIDs |-> NoProc]
    /\ pc = [p \in Procs |-> "idle"]
    /\ op = [p \in Procs |-> "none"]
    /\ xfer = [p \in Procs |-> NoXfer]
    /\ local = [p \in Procs |-> NoLocal]
    /\ last = NoCall
    /\ tokens = <<>>
    /\ export = NoExport

\* --------------------------------------------------- transaction plumbing
\* Call o of process p returns r: its transaction (if any) has ended, so its
\* row locks are released and its locals are gone.
Return(p, o, r) ==
    /\ pc' = [pc EXCEPT ![p] = "idle"]
    /\ op' = [op EXCEPT ![p] = "none"]
    /\ xfer' = [xfer EXCEPT ![p] = NoXfer]
    /\ local' = [local EXCEPT ![p] = NoLocal]
    /\ last' = [op |-> o, result |-> r]
    /\ userLock' = [n \in Names |-> IF userLock[n] = p THEN NoProc ELSE userLock[n]]
    /\ linkLock' = [c \in Codes |-> IF linkLock[c] = p THEN NoProc ELSE linkLock[c]]
    /\ harvestLock' = [h \in HarvestIDs |-> IF harvestLock[h] = p THEN NoProc ELSE harvestLock[h]]

\* Call o fails with r; db.Transaction rolls back, nothing was committed.
Rollback(p, o, r) == Return(p, o, r) /\ UNCHANGED dbvars

\* Calls in flight that append to the ledger when they commit.
Appending == {p \in Procs : op[p] \in {"Transfer", "CreateGiftLink",
                 "RedeemGiftLink", "DeleteGiftLink", "CompleteHarvest"}}

LedgerRoom == Len(ledger) + Cardinality(Appending) < MaxLedger

\* ------------------------------------------------------- Transfer Engine
\* clause.Locking{Strength: "UPDATE"}: the row lock is free or already ours.
CanLock(p, n) == userLock[n] \in {NoProc, p}

\* FindFromUserForUpdate reading the sender without the locking clause.
FindFromUserNoLock(p, o, x) ==
    IF ~users[x.fromUsername].exists THEN Rollback(p, o, "ErrUserNotFound")
    ELSE IF users[x.fromUsername].BeanAmount < x.amount
    THEN Rollback(p, o, "ErrInsufficientBalance")
    ELSE /\ local' = [local EXCEPT ![p].fromBeans =
                         users[x.fromUsername].BeanAmount]
         /\ xfer' = [xfer EXCEPT ![p] = x]
         /\ op' = [op EXCEPT ![p] = o]
         /\ pc' = [pc EXCEPT ![p] = "lockTo"]
         /\ UNCHANGED <<dbvars, lockvars, last>>

\* Transfer, lines 42-52: lock and read the sender x.fromUsername of transfer
\* x made by call o, and check its balance.
FindFromUserForUpdate(p, o, x) ==
    IF ~users[x.fromUsername].exists THEN Rollback(p, o, "ErrUserNotFound")
    ELSE /\ CanLock(p, x.fromUsername)
         /\ IF users[x.fromUsername].BeanAmount < x.amount
            THEN Rollback(p, o, "ErrInsufficientBalance")
            ELSE /\ userLock' = [userLock EXCEPT ![x.fromUsername] = p]
                 /\ local' = [local EXCEPT ![p].fromBeans =
                                 users[x.fromUsername].BeanAmount]
                 /\ xfer' = [xfer EXCEPT ![p] = x]
                 /\ op' = [op EXCEPT ![p] = o]
                 /\ pc' = [pc EXCEPT ![p] = "lockTo"]
                 /\ UNCHANGED <<dbvars, linkLock, harvestLock, last>>

\* Transfer that compares the two usernames before it looks at the amount.
TransferSelfFirst(p, fromUsername, toUsername, amount, force) ==
    /\ pc[p] = "idle"
    /\ LedgerRoom
    /\ UNCHANGED <<now, othervars>>
    /\ IF fromUsername = toUsername
       THEN Rollback(p, "Transfer", "ErrSelfTransfer")
       ELSE IF amount <= 0 THEN Rollback(p, "Transfer", "ErrInvalidAmount")
       ELSE FindFromUserForUpdate(p, "Transfer",
               [fromUsername |-> fromUsername, toUsername |-> toUsername,
                amount |-> amount, force |-> force])

\* Transfer, lines 32-52: validate, open the transaction, lock the sender.
Transfer(p, fromUsername, toUsername, amount, force) ==
    /\ pc[p] = "idle"
    /\ LedgerRoom
    /\ UNCHANGED <<now, othervars>>
    /\ IF amount <= 0 THEN Rollback(p, "Transfer", "ErrInvalidAmount")
       ELSE IF fromUsername = toUsername
       THEN Rollback(p, "Transfer", "ErrSelfTransfer")
       ELSE FindFromUserForUpdate(p, "Transfer",
               [fromUsername |-> fromUsername, toUsername |-> toUsername,
                amount |-> amount, force |-> force])

\* ToUserBeans giving a created recipient the 1-bean bonus.
ToUserBeansBonus(p) ==
    IF users[xfer[p].toUsername].exists
    THEN users[xfer[p].toUsername].BeanAmount
    ELSE 1

\* Transfer, lines 54-70: the balance of the recipient row that was locked,
\* or of the row that was created (BeanAmount 0).
ToUserBeans(p) ==
    IF users[xfer[p].toUsername].exists
    THEN users[xfer[p].toUsername].BeanAmount
    ELSE 0

\* UsersAfterTransfer that credits the recipient and leaves the sender as read.
UsersAfterTransferNoDebit(p, fromBeans, toBeans) ==
    [users EXCEPT
       ![xfer[p].fromUsername] = [exists |-> TRUE, BeanAmount |-> fromBeans],
       ![xfer[p].toUsername] =
           [exists |-> TRUE, BeanAmount |-> toBeans + xfer[p].amount]]

\* Transfer, lines 72-81: both rows saved from the copies the transaction
\* holds: sender fromBeans - amount, recipient toBeans + amount.
UsersAfterTransfer(p, fromBeans, toBeans) ==
    [users EXCEPT
       ![xfer[p].fromUsername] =
           [exists |-> TRUE, BeanAmount |-> fromBeans - xfer[p].amount],
       ![xfer[p].toUsername] =
           [exists |-> TRUE, BeanAmount |-> toBeans + xfer[p].amount]]

\* Transfer that moves the beans and records nothing.
LedgerAfterTransferNoRecord(p) == ledger

\* Transfer, lines 83-89.
LedgerAfterTransfer(p) ==
    Append(ledger, [FromUser |-> xfer[p].fromUsername,
                    ToUser |-> xfer[p].toUsername,
                    Amount |-> xfer[p].amount, Note |-> ""])

\* Transfer, lines 59-62: no recipient row and force is off.
RecipientMissing(p) ==
    ~users[xfer[p].toUsername].exists /\ ~xfer[p].force

\* Transfer, lines 54-57: the locking read of the recipient can return.
CanLockTo(p) ==
    users[xfer[p].toUsername].exists => CanLock(p, xfer[p].toUsername)

\* TransferCommit that saves the debit before it looks the recipient up, and
\* outside the transaction.
TransferCommitPartial(p) ==
    /\ pc[p] = "lockTo"
    /\ op[p] = "Transfer"
    /\ UNCHANGED <<now, othervars, giftLinks, harvests>>
    /\ IF RecipientMissing(p)
       THEN /\ users' = [users EXCEPT ![xfer[p].fromUsername].BeanAmount =
                            local[p].fromBeans - xfer[p].amount]
            /\ UNCHANGED ledger
            /\ Return(p, "Transfer", "ErrRecipientNotFound")
       ELSE /\ CanLockTo(p)
            /\ users' = UsersAfterTransfer(p, local[p].fromBeans, ToUserBeans(p))
            /\ ledger' = LedgerAfterTransfer(p)
            /\ Return(p, "Transfer", "ok")

\* Transfer, lines 54-90: lock (or create) the recipient, move the beans,
\* append the ledger entry, commit.
TransferCommit(p) ==
    /\ pc[p] = "lockTo"
    /\ op[p] = "Transfer"
    /\ UNCHANGED <<now, othervars, giftLinks, harvests>>
    /\ IF RecipientMissing(p)
       THEN /\ UNCHANGED <<users, ledger>>
            /\ Return(p, "Transfer", "ErrRecipientNotFound")
       ELSE /\ CanLockTo(p)
            /\ users' = UsersAfterTransfer(p, local[p].fromBeans, ToUserBeans(p))
            /\ ledger' = LedgerAfterTransfer(p)
            /\ Return(p, "Transfer", "ok")

\* -------------------------------------------------------- Wallet service
\* GetOrCreateWallet, lines 26-31: FindByUsername outside any transaction.
GetOrCreateWallet(p, username) ==
    /\ pc[p] = "idle"
    /\ UNCHANGED <<now, othervars>>
    /\ IF users[username].exists THEN Rollback(p, "GetOrCreateWallet", "ok")
       ELSE /\ pc' = [pc EXCEPT ![p] = "create"]
            /\ op' = [op EXCEPT ![p] = "GetOrCreateWallet"]
            /\ local' = [local EXCEPT ![p].username = username]
            /\ UNCHANGED <<dbvars, lockvars, xfer, last>>

\* CreateWallet that credits the bonus again when the row already exists.
CreateWalletAgain(p) ==
    /\ pc[p] = "create"
    /\ UNCHANGED <<now, othervars>>
    /\ users' = [users EXCEPT ![local[p].username] =
                    [exists |-> TRUE,
                     BeanAmount |-> users[local[p].username].BeanAmount + 1]]
    /\ UNCHANGED <<ledger, giftLinks, harvests>>
    /\ Return(p, "GetOrCreateWallet", "ok")

\* GetOrCreateWallet, lines 32-43: userRepo.Create with BeanAmount 1; the
\* unique index on username rejects a second row.
CreateWallet(p) ==
    /\ pc[p] = "create"
    /\ UNCHANGED <<now, othervars>>
    /\ IF users[local[p].username].exists
       THEN Rollback(p, "GetOrCreateWallet", "StoreError")
       ELSE /\ users' = [users EXCEPT ![local[p].username] =
                            [exists |-> TRUE, BeanAmount |-> 1]]
            /\ UNCHANGED <<ledger, giftLinks, harvests>>
            /\ Return(p, "GetOrCreateWallet", "ok")

\* UpdateBalance, lines 65-76: read the row, then UPDATE it; the UPDATE waits
\* for a row lock held by a transaction.
UpdateBalance(p, username, newAmount) ==
    /\ pc[p] = "idle"
    /\ UNCHANGED <<now, othervars>>
    /\ IF ~users[username].exists
       THEN Rollback(p, "UpdateBalance", "ErrUserNotFound")
       ELSE /\ userLock[username] = NoProc
            /\ users' = [users EXCEPT ![username].BeanAmount = newAmount]
            /\ UNCHANGED <<ledger, giftLinks, harvests>>
            /\ Return(p, "UpdateBalance", "ok")

\* ----------------------------------------------------- Gift-link escrow
\* parseExpiry that gives an unrecognized policy the shortest expiry.
parseExpiryUnknownIsHour(expiresIn, t) ==
    IF expiresIn = "" \/ expiresIn = "never" THEN NoTime
    ELSE IF expiresIn = "1h" THEN t + 1
    ELSE IF expiresIn = "24h" THEN t + 24
    ELSE IF expiresIn = "7d" THEN t + 7 * 24
    ELSE IF expiresIn = "30d" THEN t + 30 * 24
    ELSE t + 1

\* parseExpiry, lines 183-204: the expiry of a link created at time t, in
\* hours; nil for "", "never" and every unrecognized string.
parseExpiry(expiresIn, t) ==
    IF expiresIn = "" \/ expiresIn = "never" THEN NoTime
    ELSE IF expiresIn = "1h" THEN t + 1
    ELSE IF expiresIn = "24h" THEN t + 24
    ELSE IF expiresIn = "7d" THEN t + 7 * 24
    ELSE IF expiresIn = "30d" THEN t + 30 * 24
    ELSE NoTime

\* Calls in flight that insert a gift link when they commit.
Creating == {p \in Procs : op[p] = "CreateGiftLink"}

FreeCodes == {c \in Codes : ~giftLinks[c].exists}

\* generateUniqueCode, lines 163-181: a code no link has yet.
generateUniqueCode == CHOOSE c \in FreeCodes : \A d \in FreeCodes : c <= d

\* TransferInTx: the body of Transfer's transaction (lines 42-52), run in the
\* transaction the caller has open.
TransferInTxLockFrom(p) ==
    /\ pc[p] = "lockFrom"
    /\ UNCHANGED <<now, othervars>>
    /\ FindFromUserForUpdate(p, op[p], xfer[p])

\* CreateGiftLink without the check that the owner exists.
CreateGiftLinkNoUserCheck(p, fromUsername, amount, expiresIn) ==
    /\ pc[p] = "idle"
    /\ UNCHANGED <<now, othervars>>
    /\ IF amount <= 0 THEN Rollback(p, "CreateGiftLink", "ErrInvalidAmount")
       ELSE IF users[fromUsername].BeanAmount < amount
       THEN Rollback(p, "CreateGiftLink", "ErrInsufficientBalanceForGift")
       ELSE /\ LedgerRoom
            /\ Cardinality(Creating) < Cardinality(FreeCodes)
            /\ pc' = [pc EXCEPT ![p] = "lockFrom"]
            /\ op' = [op EXCEPT ![p] = "CreateGiftLink"]
            /\ xfer' = [xfer EXCEPT ![p] = [fromUsername |-> fromUsername,
                           toUsername |-> "system", amount |-> amount,
                           force |-> TRUE]]
            /\ local' = [local EXCEPT ![p].expiry = parseExpiry(expiresIn, now)]
            /\ UNCHANGED <<dbvars, lockvars, last>>

\* CreateGiftLink, lines 206-229: checks made before the transaction opens.
\* A call that passes them needs room in the ledger and a free code.
CreateGiftLink(p, fromUsername, amount, expiresIn) ==
    /\ pc[p] = "idle"
    /\ UNCHANGED <<now, othervars>>
    /\ IF amount <= 0 THEN Rollback(p, "CreateGiftLink", "ErrInvalidAmount")
       ELSE IF ~users[fromUsername].exists
       THEN Rollback(p, "CreateGiftLink", "ErrUserNotFound")
       ELSE IF users[fromUsername].BeanAmount < amount
       THEN Rollback(p, "CreateGiftLink", "ErrInsufficientBalanceForGift")
       ELSE /\ LedgerRoom
            /\ Cardinality(Creating) < Cardinality(FreeCodes)
            /\ pc' = [pc EXCEPT ![p] = "lockFrom"]
            /\ op' = [op EXCEPT ![p] = "CreateGiftLink"]
            /\ xfer' = [xfer EXCEPT ![p] = [fromUsername |-> fromUsername,
                           toUsername |-> "system", amount |-> amount,
                           force |-> TRUE]]
            /\ local' = [local EXCEPT ![p].expiry = parseExpiry(expiresIn, now)]
            /\ UNCHANGED <<dbvars, lockvars, last>>

\* CreateGiftLinkCommit that inserts the link and skips the escrow transfer.
CreateGiftLinkCommitNoEscrow(p) ==
    /\ pc[p] = "lockTo"
    /\ op[p] = "CreateGiftLink"
    /\ CanLockTo(p)
    /\ UNCHANGED users
    /\ ledger' = LedgerAfterTransfer(p)
    /\ giftLinks' = [giftLinks EXCEPT ![generateUniqueCode] =
                        [exists |-> TRUE, FromUser |-> xfer[p].fromUsername,
                         Amount |-> xfer[p].amount,
                         ExpiresAt |-> local[p].expiry, RedeemedAt |-> NoTime,
                         RedeemedBy |-> NoUser, Active |-> TRUE]]
    /\ UNCHANGED <<now, othervars, harvests>>
    /\ Return(p, "CreateGiftLink", "ok")

\* CreateGiftLink, lines 230-264: escrow the beans, insert the link, commit.
CreateGiftLinkCommit(p) ==
    /\ pc[p] = "lockTo"
    /\ op[p] = "CreateGiftLink"
    /\ CanLockTo(p)
    /\ users' = UsersAfterTransfer(p, local[p].fromBeans, ToUserBeans(p))
    /\ ledger' = LedgerAfterTransfer(p)
    /\ giftLinks' = [giftLinks EXCEPT ![generateUniqueCode] =
                        [exists |-> TRUE, FromUser |-> xfer[p].fromUsername,
                         Amount |-> xfer[p].amount,
                         ExpiresAt |-> local[p].expiry, RedeemedAt |-> NoTime,
                         RedeemedBy |-> NoUser, Active |-> TRUE]]
    /\ UNCHANGED <<now, othervars, harvests>>
    /\ Return(p, "CreateGiftLink", "ok")

\* FindByCodeForUpdate reading the link row without the locking clause.
FindByCodeNoLock(p, code) == TRUE

\* FindByCodeForUpdate: the locking read of the link row can return.
FindByCodeForUpdate(p, code) == linkLock[code] \in {NoProc, p}

\* RedeemGiftLink that checks the active flag before the redemption stamp.
RedeemGiftLinkActiveFirst(p, code, redeemUsername) ==
    /\ pc[p] = "idle"
    /\ LedgerRoom
    /\ UNCHANGED <<now, othervars>>
    /\ IF ~giftLinks[code].exists
       THEN Rollback(p, "RedeemGiftLink", "ErrGiftLinkNotFound")
       ELSE /\ FindByCodeForUpdate(p, code)
            /\ IF ~giftLinks[code].Active
               THEN Rollback(p, "RedeemGiftLink", "ErrGiftLinkInactive")
               ELSE IF giftLinks[code].RedeemedAt # NoTime
               THEN Rollback(p, "RedeemGiftLink", "ErrGiftLinkRedeemed")
               ELSE IF giftLinks[code].ExpiresAt # NoTime
                       /\ now > giftLinks[code].ExpiresAt
               THEN Rollback(p, "RedeemGiftLink", "ErrGiftLinkExpired")
               ELSE IF giftLinks[code].FromUser = redeemUsername
               THEN Rollback(p, "RedeemGiftLink", "ErrCannotRedeemOwnLink")
               ELSE /\ linkLock' = [linkLock EXCEPT ![code] = p]
                    /\ pc' = [pc EXCEPT ![p] = "lockFrom"]
                    /\ op' = [op EXCEPT ![p] = "RedeemGiftLink"]
                    /\ xfer' = [xfer EXCEPT ![p] = [fromUsername |-> "system",
                                   toUsername |-> redeemUsername,
                                   amount |-> giftLinks[code].Amount,
                                   force |-> TRUE]]
                    /\ local' = [local EXCEPT ![p].id = code,
                                              ![p].giftLink = giftLinks[code]]
                    /\ UNCHANGED <<dbvars, userLock, harvestLock, last>>

\* RedeemGiftLink, lines 267-291: lock the link row, then the checks.
RedeemGiftLink(p, code, redeemUsername) ==
    /\ pc[p] = "idle"
    /\ LedgerRoom
    /\ UNCHANGED <<now, othervars>>
    /\ IF ~giftLinks[code].exists
       THEN Rollback(p, "RedeemGiftLink", "ErrGiftLinkNotFound")
       ELSE /\ FindByCodeForUpdate(p, code)
            /\ IF giftLinks[code].RedeemedAt # NoTime
               THEN Rollback(p, "RedeemGiftLink", "ErrGiftLinkRedeemed")
               ELSE IF ~giftLinks[code].Active
               THEN Rollback(p, "RedeemGiftLink", "ErrGiftLinkInactive")
               ELSE IF giftLinks[code].ExpiresAt # NoTime
                       /\ now > giftLinks[code].ExpiresAt
               THEN Rollback(p, "RedeemGiftLink", "ErrGiftLinkExpired")
               ELSE IF giftLinks[code].FromUser = redeemUsername
               THEN Rollback(p, "RedeemGiftLink", "ErrCannotRedeemOwnLink")
               ELSE /\ linkLock' = [linkLock EXCEPT ![code] = p]
                    /\ pc' = [pc EXCEPT ![p] = "lockFrom"]
                    /\ op' = [op EXCEPT ![p] = "RedeemGiftLink"]
                    /\ xfer' = [xfer EXCEPT ![p] = [fromUsername |-> "system",
                                   toUsername |-> redeemUsername,
                                   amount |-> giftLinks[code].Amount,
                                   force |-> TRUE]]
                    /\ local' = [local EXCEPT ![p].id = code,
                                              ![p].giftLink = giftLinks[code]]
                    /\ UNCHANGED <<dbvars, userLock, harvestLock, last>>

\* RedeemGiftLinkCommit that stamps the link and leaves it active.
RedeemGiftLinkCommitStaysActive(p) ==
    /\ pc[p] = "lockTo"
    /\ op[p] = "RedeemGiftLink"
    /\ CanLockTo(p)
    /\ users' = UsersAfterTransfer(p, local[p].fromBeans, ToUserBeans(p))
    /\ ledger' = LedgerAfterTransfer(p)
    /\ giftLinks' = [giftLinks EXCEPT ![local[p].id] =
                        [local[p].giftLink EXCEPT !.RedeemedAt = now,
                                                  !.RedeemedBy = xfer[p].toUsername]]
    /\ UNCHANGED <<now, othervars, harvests>>
    /\ Return(p, "RedeemGiftLink", "ok")

\* RedeemGiftLink, lines 293-315: pay the redeemer out of escrow, stamp the
\* link, commit.
RedeemGiftLinkCommit(p) ==
    /\ pc[p] = "lockTo"
    /\ op[p] = "RedeemGiftLink"
    /\ CanLockTo(p)
    /\ users' = UsersAfterTransfer(p, local[p].fromBeans, ToUserBeans(p))
    /\ ledger' = LedgerAfterTransfer(p)
    /\ giftLinks' = [giftLinks EXCEPT ![local[p].id] =
                        [local[p].giftLink EXCEPT !.RedeemedAt = now,
                                                  !.RedeemedBy = xfer[p].toUsername,
                                                  !.Active = FALSE]]
    /\ UNCHANGED <<now, othervars, harvests>>
    /\ Return(p, "RedeemGiftLink", "ok")

\* DeleteGiftLink, lines 330-350: the user and the link are read outside the
\* transaction; the transaction refunds only a link read as unredeemed and
\* active.
DeleteGiftLinkNoOwnerCheck(p, id, username) ==
    /\ pc[p] = "idle"
    /\ LedgerRoom
    /\ UNCHANGED <<now, othervars>>
    /\ IF ~users[username].exists
       THEN Rollback(p, "DeleteGiftLink", "ErrUserNotFound")
       ELSE IF ~giftLinks[id].exists
       THEN Rollback(p, "DeleteGiftLink", "ErrGiftLinkNotFound")
       ELSE /\ op' = [op EXCEPT ![p] = "DeleteGiftLink"]
            /\ local' = [local EXCEPT ![p].id = id,
                                      ![p].giftLink = giftLinks[id]]
            /\ IF giftLinks[id].RedeemedAt = NoTime /\ giftLinks[id].Active
               THEN /\ pc' = [pc EXCEPT ![p] = "lockFrom"]
                    /\ xfer' = [xfer EXCEPT ![p] = [fromUsername |-> "system",
                                   toUsername |-> username,
                                   amount |-> giftLinks[id].Amount,
                                   force |-> TRUE]]
               ELSE /\ pc' = [pc EXCEPT ![p] = "saveLink"]
                    /\ UNCHANGED xfer
            /\ UNCHANGED <<dbvars, lockvars, last>>

DeleteGiftLink(p, id, username) ==
    /\ pc[p] = "idle"
    /\ LedgerRoom
    /\ UNCHANGED <<now, othervars>>
    /\ IF ~users[username].exists
       THEN Rollback(p, "DeleteGiftLink", "ErrUserNotFound")
       ELSE IF ~giftLinks[id].exists
       THEN Rollback(p, "DeleteGiftLink", "ErrGiftLinkNotFound")
       ELSE IF giftLinks[id].FromUser # username
       THEN Rollback(p, "DeleteGiftLink", "ErrNotOwner")
       ELSE /\ op' = [op EXCEPT ![p] = "DeleteGiftLink"]
            /\ local' = [local EXCEPT ![p].id = id,
                                      ![p].giftLink = giftLinks[id]]
            /\ IF giftLinks[id].RedeemedAt = NoTime /\ giftLinks[id].Active
               THEN /\ pc' = [pc EXCEPT ![p] = "lockFrom"]
                    /\ xfer' = [xfer EXCEPT ![p] = [fromUsername |-> "system",
                                   toUsername |-> username,
                                   amount |-> giftLinks[id].Amount,
                                   force |-> TRUE]]
               ELSE /\ pc' = [pc EXCEPT ![p] = "saveLink"]
                    /\ UNCHANGED xfer
            /\ UNCHANGED <<dbvars, lockvars, last>>

\* DeleteGiftLink, lines 352-356: the refund locks the owner row; its writes
\* stay in the transaction.
DeleteGiftLinkRefund(p) ==
    /\ pc[p] = "lockTo"
    /\ op[p] = "DeleteGiftLink"
    /\ CanLockTo(p)
    /\ userLock' = [userLock EXCEPT ![xfer[p].toUsername] = p]
    /\ local' = [local EXCEPT ![p].toBeans = ToUserBeans(p)]
    /\ pc' = [pc EXCEPT ![p] = "saveLink"]
    /\ UNCHANGED <<dbvars, now, othervars, linkLock, harvestLock, op, xfer, last>>

\* DeleteGiftLink, lines 358-364: save the link row that was read, with
\* Active off, and commit; the UPDATE waits for the row lock.
DeleteGiftLinkSave(p) ==
    /\ pc[p] = "saveLink"
    /\ linkLock[local[p].id] \in {NoProc, p}
    /\ giftLinks' = [giftLinks EXCEPT ![local[p].id] =
                        [local[p].giftLink EXCEPT !.Active = FALSE]]
    /\ IF xfer[p] # NoXfer
       THEN /\ users' = UsersAfterTransfer(p, local[p].fromBeans, local[p].toBeans)
            /\ ledger' = LedgerAfterTransfer(p)
       ELSE UNCHANGED <<users, ledger>>
    /\ UNCHANGED <<now, othervars, harvests>>
    /\ Return(p, "DeleteGiftLink", "ok")

\* -------------------------------------------------------- Harvest payout
FreeHarvestIDs == {h \in HarvestIDs : ~harvests[h].exists}

\* CreateHarvest, lines 186-200: insert an unassigned, uncompleted harvest.
CreateHarvest(p, title, beanAmount) ==
    /\ pc[p] = "idle"
    /\ FreeHarvestIDs # {}
    /\ harvests' = [harvests EXCEPT
          ![CHOOSE h \in FreeHarvestIDs : \A g \in FreeHarvestIDs : h <= g] =
              [exists |-> TRUE, Title |-> title, BeanAmount |-> beanAmount,
               AssignedUserID |-> NoUser, Completed |-> FALSE]]
    /\ UNCHANGED <<users, ledger, giftLinks, now, othervars>>
    /\ Return(p, "CreateHarvest", "ok")

\* UpdateHarvest, lines 202-206, and AssignUser, lines 220-224: FindByID reads the
\* harvest row outside any transaction; o is the calling operation.
FindHarvestByID(p, o, id, username, title, beanAmount) ==
    /\ pc[p] = "idle"
    /\ UNCHANGED <<now, othervars>>
    /\ IF ~harvests[id].exists THEN Rollback(p, o, "ErrRecordNotFound")
       ELSE /\ pc' = [pc EXCEPT ![p] = "saveHarvest"]
            /\ op' = [op EXCEPT ![p] = o]
            /\ local' = [local EXCEPT ![p].id = id,
                                      ![p].username = username,
                                      ![p].title = title,
                                      ![p].amount = beanAmount,
                                      ![p].harvest = harvests[id]]
            /\ UNCHANGED <<dbvars, lockvars, xfer, last>>

UpdateHarvest(p, id, title, beanAmount) ==
    FindHarvestByID(p, "UpdateHarvest", id, NoUser, title, beanAmount)

AssignUser(p, harvestID, userID) ==
    FindHarvestByID(p, "AssignUser", harvestID, userID, "", 0)

\* UpdateHarvest, lines 208-218: harvestRepo.Update saves the row that was
\* read, with the new title and reward; the UPDATE waits for the row lock.
UpdateHarvestSave(p) ==
    /\ pc[p] = "saveHarvest"
    /\ op[p] = "UpdateHarvest"
    /\ harvestLock[local[p].id] = NoProc
    /\ harvests' = [harvests EXCEPT ![local[p].id] =
                       [local[p].harvest EXCEPT !.Title = local[p].title,
                                                !.BeanAmount = local[p].amount]]
    /\ UNCHANGED <<users, ledger, giftLinks, now, othervars>>
    /\ Return(p, "UpdateHarvest", "ok")

\* AssignUser, lines 226-242: the user must exist; harvestRepo.Update saves the
\* row that was read, with the new assignee.
AssignUserSave(p) ==
    /\ pc[p] = "saveHarvest"
    /\ op[p] = "AssignUser"
    /\ UNCHANGED <<now, othervars>>
    /\ IF ~users[local[p].username].exists
       THEN Rollback(p, "AssignUser", "ErrUserNotFound")
       ELSE /\ harvestLock[local[p].id] = NoProc
            /\ harvests' = [harvests EXCEPT ![local[p].id] =
                               [local[p].harvest EXCEPT
                                   !.AssignedUserID = local[p].username]]
            /\ UNCHANGED <<users, ledger, giftLinks>>
            /\ Return(p, "AssignUser", "ok")

\* CompleteHarvest with the assignee check folded into the completed check.
CompleteHarvestMergedChecks(p, harvestID) ==
    /\ pc[p] = "idle"
    /\ LedgerRoom
    /\ UNCHANGED <<now, othervars>>
    /\ IF ~harvests[harvestID].exists
       THEN Rollback(p, "CompleteHarvest", "ErrHarvestNotFound")
       ELSE /\ harvestLock[harvestID] = NoProc
            /\ IF \/ harvests[harvestID].Completed
                  \/ harvests[harvestID].AssignedUserID = NoUser
               THEN Rollback(p, "CompleteHarvest", "ErrHarvestAlreadyCompleted")
               ELSE /\ harvestLock' = [harvestLock EXCEPT ![harvestID] = p]
                    /\ pc' = [pc EXCEPT ![p] = "lockAssigned"]
                    /\ op' = [op EXCEPT ![p] = "CompleteHarvest"]
                    /\ local' = [local EXCEPT ![p].id = harvestID,
                                              ![p].harvest = harvests[harvestID]]
                    /\ UNCHANGED <<dbvars, userLock, linkLock, xfer, last>>

\* CompleteHarvest, lines 255-274: lock the harvest row, then the checks.
CompleteHarvest(p, harvestID) ==
    /\ pc[p] = "idle"
    /\ LedgerRoom
    /\ UNCHANGED <<now, othervars>>
    /\ IF ~harvests[harvestID].exists
       THEN Rollback(p, "CompleteHarvest", "ErrHarvestNotFound")
       ELSE /\ harvestLock[harvestID] = NoProc
            /\ IF harvests[harvestID].Completed
               THEN Rollback(p, "CompleteHarvest", "ErrHarvestAlreadyCompleted")
               ELSE IF harvests[harvestID].AssignedUserID = NoUser
               THEN Rollback(p, "CompleteHarvest", "ErrNoAssignedUser")
               ELSE /\ harvestLock' = [harvestLock EXCEPT ![harvestID] = p]
                    /\ pc' = [pc EXCEPT ![p] = "lockAssigned"]
                    /\ op' = [op EXCEPT ![p] = "CompleteHarvest"]
                    /\ local' = [local EXCEPT ![p].id = harvestID,
                                              ![p].harvest = harvests[harvestID]]
                    /\ UNCHANGED <<dbvars, userLock, linkLock, xfer, last>>

\* WithSystemUser creating the system row with the 1-bean bonus.
WithSystemUserBonus(u) ==
    IF u["system"].exists THEN u
    ELSE [u EXCEPT !["system"] = [exists |-> TRUE, BeanAmount |-> 1]]

\* CompleteHarvest, lines 289-304: the system row, created with BeanAmount 0
\* when there is none.
WithSystemUser(u) ==
    IF u["system"].exists THEN u
    ELSE [u EXCEPT !["system"] = [exists |-> TRUE, BeanAmount |-> 0]]

\* CompleteHarvestCommit with a ledger note that leaves the title out.
CompleteHarvestCommitNoTitle(p) ==
    /\ pc[p] = "lockAssigned"
    /\ CanLock(p, local[p].harvest.AssignedUserID)
    /\ users' = WithSystemUser(
          [users EXCEPT ![local[p].harvest.AssignedUserID].BeanAmount =
              users[local[p].harvest.AssignedUserID].BeanAmount
                 + local[p].harvest.BeanAmount])
    /\ ledger' = Append(ledger, [FromUser |-> "system",
                                 ToUser |-> local[p].harvest.AssignedUserID,
                                 Amount |-> local[p].harvest.BeanAmount,
                                 Note |-> "Harvest completed: "])
    /\ harvests' = [harvests EXCEPT ![local[p].id] =
                       [local[p].harvest EXCEPT !.Completed = TRUE]]
    /\ UNCHANGED <<giftLinks, now, othervars>>
    /\ Return(p, "CompleteHarvest", "ok")

\* CompleteHarvest, lines 276-325: lock the assignee, credit the reward,
\* append the ledger entry, set Completed, commit.
CompleteHarvestCommit(p) ==
    /\ pc[p] = "lockAssigned"
    /\ CanLock(p, local[p].harvest.AssignedUserID)
    /\ users' = WithSystemUser(
          [users EXCEPT ![local[p].harvest.AssignedUserID].BeanAmount =
              users[local[p].harvest.AssignedUserID].BeanAmount
                 + local[p].harvest.BeanAmount])
    /\ ledger' = Append(ledger, [FromUser |-> "system",
                                 ToUser |-> local[p].harvest.AssignedUserID,
                                 Amount |-> local[p].harvest.BeanAmount,
                                 Note |-> "Harvest completed: "
                                             \o local[p].harvest.Title])
    /\ harvests' = [harvests EXCEPT ![local[p].id] =
                       [local[p].harvest EXCEPT !.Completed = TRUE]]
    /\ UNCHANGED <<giftLinks, now, othervars>>
    /\ Return(p, "CompleteHarvest", "ok")

\* ------------------------------------------------------------ the store
\* p waits for a row lock that q holds.
WaitsFor(p, q) ==
    /\ p # q
    /\ \/ /\ pc[p] = "lockFrom"
          /\ users[xfer[p].fromUsername].exists
          /\ userLock[xfer[p].fromUsername] = q
       \/ /\ pc[p] = "lockTo"
          /\ users[xfer[p].toUsername].exists
          /\ userLock[xfer[p].toUsername] = q
       \/ /\ pc[p] = "saveLink"
          /\ linkLock[local[p].id] = q
       \/ /\ pc[p] = "lockAssigned"
          /\ userLock[local[p].harvest.AssignedUserID] = q
       \/ /\ pc[p] = "saveHarvest"
          /\ harvestLock[local[p].id] = q

\* The store breaks a circular wait by failing one of the two transactions;
\* the call returns the store's error as it is.
DeadlockAbort(p) ==
    /\ \E q \in Procs : WaitsFor(p, q) /\ WaitsFor(q, p)
    /\ UNCHANGED <<now, othervars>>
    /\ Rollback(p, op[p], "StoreError")

Tick ==
    /\ now < MaxTime
    /\ now' = now + 1
    /\ UNCHANGED <<dbvars, lockvars, procvars, othervars>>

\* ------------------------------------------------------------ API tokens
\* The secret the service is configured with, and the keys a forger tries.
jwtSecret == "secret"
Secrets == {"secret", "guess"}

\* token.SignedString, line 55: the HMAC-SHA256 of the header and the claims
\* under key; different inputs give different signatures.
SignedString(alg, username, iat, exp, key) == <<alg, username, iat, exp, key>>

\* jwt.NewWithClaims and SignedString, lines 45-55: the token string.
NewWithClaims(alg, username, iat, exp, key) ==
    [alg |-> alg, Username |-> username, iat |-> iat, exp |-> exp,
     sig |-> SignedString(alg, username, iat, exp, key)]

\* Calls in flight that insert a token row.
Issuing == {p \in Procs : op[p] = "GenerateToken"}

\* GenerateToken, lines 36-58: the user must exist; the claims carry the
\* username, the issue time and the expiry, and are signed.
GenerateToken(p, username, expiresIn) ==
    /\ pc[p] = "idle"
    /\ UNCHANGED <<now, othervars>>
    /\ IF ~users[username].exists
       THEN Rollback(p, "GenerateToken", "ErrUserNotFound")
       ELSE /\ \/ Len(tokens) + Cardinality(Issuing) < MaxTokens
               \/ \E i \in 1..Len(tokens) :
                     tokens[i].Token = NewWithClaims("HS256", username, now,
                                                     now + expiresIn, jwtSecret)
            /\ pc' = [pc EXCEPT ![p] = "createToken"]
            /\ op' = [op EXCEPT ![p] = "GenerateToken"]
            /\ local' = [local EXCEPT
                  ![p].username = username,
                  ![p].expiresIn = expiresIn,
                  ![p].token = NewWithClaims("HS256", username, now,
                                             now + expiresIn, jwtSecret)]
            /\ UNCHANGED <<dbvars, lockvars, xfer, last>>

\* GenerateToken, lines 60-71: insert the record, with its own reading of
\* the clock; the unique index on the token column rejects a string that a
\* row, deleted or not, already holds.
GenerateTokenCreate(p) ==
    /\ pc[p] = "createToken"
    /\ UNCHANGED <<now, export>>
    /\ IF \E i \in 1..Len(tokens) : tokens[i].Token = local[p].token
       THEN /\ Rollback(p, "GenerateToken", "StoreError")
            /\ UNCHANGED tokens
       ELSE /\ tokens' = Append(tokens,
                  [UserID |-> local[p].username, Token |-> local[p].token,
                   ExpiresAt |-> now + local[p].expiresIn, Deleted |-> FALSE])
            /\ UNCHANGED dbvars
            /\ Return(p, "GenerateToken", "ok")

\* jwt.ParseWithClaims, lines 75-89: the signing method must be HMAC, the
\* signature must verify under the configured secret and the exp claim must
\* lie in the future.
ParseWithClaims(t) ==
    /\ t.alg = "HS256"
    /\ t.sig = SignedString(t.alg, t.Username, t.iat, t.exp, jwtSecret)
    /\ now < t.exp

\* ValidateToken, lines 74-89.
ValidateToken(p, tokenString) ==
    /\ pc[p] = "idle"
    /\ UNCHANGED <<now, othervars>>
    /\ IF ~ParseWithClaims(tokenString)
       THEN Rollback(p, "ValidateToken", "ErrInvalidToken")
       ELSE /\ pc' = [pc EXCEPT ![p] = "findToken"]
            /\ op' = [op EXCEPT ![p] = "ValidateToken"]
            /\ local' = [local EXCEPT ![p].token = tokenString]
            /\ UNCHANGED <<dbvars, lockvars, xfer, last>>

\* FindByToken that also returns deleted rows.
FindByTokenUnscoped(tokenStr) ==
    {i \in 1..Len(tokens) : /\ tokens[i].Token = tokenStr
                            /\ tokens[i].ExpiresAt > now}

\* TokenRepository.FindByToken: the rows with this token string that are
\* not deleted and whose expiry lies in the future.
FindByToken(tokenStr) ==
    {i \in 1..Len(tokens) : /\ tokens[i].Token = tokenStr
                            /\ ~tokens[i].Deleted
                            /\ tokens[i].ExpiresAt > now}

\* ValidateToken, lines 91-97: no record, no valid token.
ValidateTokenFind(p) ==
    /\ pc[p] = "findToken"
    /\ UNCHANGED <<now, othervars>>
    /\ IF FindByToken(local[p].token) = {}
       THEN Rollback(p, "ValidateToken", "ErrInvalidToken")
       ELSE /\ pc' = [pc EXCEPT ![p] = "checkExpiry"]
            /\ local' = [local EXCEPT ![p].id =
                            CHOOSE i \in FindByToken(local[p].token) : TRUE]
            /\ UNCHANGED <<dbvars, lockvars, op, xfer, last>>

\* ValidateToken, lines 99-103: the record that was read must not have
\* expired by now; the claims are returned.
ValidateTokenExpiry(p) ==
    /\ pc[p] = "checkExpiry"
    /\ UNCHANGED <<now, othervars>>
    /\ IF tokens[local[p].id].ExpiresAt < now
       THEN Rollback(p, "ValidateToken", "ErrExpiredToken")
       ELSE Rollback(p, "ValidateToken", "ok")

\* TokenRepository.FindByUserID: the ids of the live records of a user.
FindByUserID(username) ==
    {i \in 1..Len(tokens) : tokens[i].UserID = username /\ ~tokens[i].Deleted}

\* DeleteToken without the user_id condition of TokenRepository.Delete.
DeleteTokenAnyOwner(p, tokenID, username) ==
    /\ pc[p] = "idle"
    /\ UNCHANGED <<now, export>>
    /\ IF ~users[username].exists
       THEN /\ Rollback(p, "DeleteToken", "ErrUserNotFound")
            /\ UNCHANGED tokens
       ELSE /\ tokens' = [i \in 1..Len(tokens) |->
                  IF i = tokenID
                  THEN [tokens[i] EXCEPT !.Deleted = TRUE]
                  ELSE tokens[i]]
            /\ UNCHANGED dbvars
            /\ Return(p, "DeleteToken", "ok")

\* DeleteToken, lines 118-128, with TokenRepository.Delete: the record with
\* this id is deleted when it belongs to the caller; deleting nothing is no
\* error.
DeleteToken(p, tokenID, username) ==
    /\ pc[p] = "idle"
    /\ UNCHANGED <<now, export>>
    /\ IF ~users[username].exists
       THEN /\ Rollback(p, "DeleteToken", "ErrUserNotFound")
            /\ UNCHANGED tokens
       ELSE /\ tokens' = [i \in 1..Len(tokens) |->
                  IF i = tokenID /\ tokens[i].UserID = username
                  THEN [tokens[i] EXCEPT !.Deleted = TRUE]
                  ELSE tokens[i]]
            /\ UNCHANGED dbvars
            /\ Return(p, "DeleteToken", "ok")

\* The token strings a caller can present: the issued ones and, for each,
\* the same claims signed with another key, with the signing method "none",
\* and with the username replaced.
TokenInputs ==
    LET issued == {tokens[i].Token : i \in 1..Len(tokens)}
    IN  issued
        \cup {NewWithClaims("HS256", t.Username, t.iat, t.exp, k) :
                 t \in issued, k \in Secrets}
        \cup {[t EXCEPT !.alg = "none", !.sig = <<>>] : t \in issued}
        \cup {[t EXCEPT !.Username = n] : t \in issued, n \in {"alice", "bob"}}

TokenIDs == 1..MaxTokens
TokenDurations == {-1, 1}

\* -------------------------------------------------------- Signed exports
\* The key the exporting service signs with, and the keys a verifying
\* service can be configured with (NewExportService, lines 41-50).
signingKey == "export-key"
SigningKeys == {"export-key", "other-key"}

\* The integers a document can carry, and their decimal rendering as
\* encoding/json writes and reads it.
Numbers == 0..(MaxLedger + MaxTime + MaxAmount * MaxHarvests + 4)
IsNumber(s) == \E n \in Numbers : ToString(n) = s
ParseInt(s) == CHOOSE n \in Numbers : ToString(n) = s

\* TransactionRepository.FindByUsername, lines 108-119: the entries that
\* name the account as sender or receiver, newest first.  A row's id and
\* creation time are its position in the log.
RECURSIVE Descending(_)
Descending(S) ==
    IF S = {} THEN <<>>
    ELSE LET m == CHOOSE i \in S : \A j \in S : j <= i
         IN  <<m>> \o Descending(S \ {m})

FindByUsername(username) ==
    LET ids == Descending({i \in 1..Len(ledger) :
                   ledger[i].FromUser = username \/ ledger[i].ToUser = username})
    IN  [k \in 1..Len(ids) |->
            [ID |-> ids[k], FromUser |-> ledger[ids[k]].FromUser,
             ToUser |-> ledger[ids[k]].ToUser, Amount |-> ledger[ids[k]].Amount,
             Note |-> ledger[ids[k]].Note, CreatedAt |-> ids[k]]]

\* json.Marshal of a TransactionExportItem (lines 29-36): the members in
\* declaration order, numbers in decimal, the note left out when empty.
MarshalItem(it) ==
    << <<"id", ToString(it.ID)>>, <<"from_user", it.FromUser>>,
       <<"to_user", it.ToUser>>, <<"amount", ToString(it.Amount)>> >>
    \o (IF it.Note = "" THEN <<>> ELSE << <<"note", it.Note>> >>)
    \o << <<"created_at", ToString(it.CreatedAt)>> >>

\* json.Marshal of a TransactionExport (lines 19-27).
Marshal(e) ==
    [closed |-> TRUE, user_id |-> e.UserID, username |-> e.Username,
     email |-> e.Email, total_beans |-> ToString(e.TotalBeans),
     transactions |-> [i \in 1..Len(e.Transactions) |-> MarshalItem(e.Transactions[i])],
     exported_at |-> ToString(e.ExportedAt), signature |-> e.Signature]

\* The value of member k of a JSON object, d when the member is absent.
Member(obj, k, d) ==
    IF \E i \in 1..Len(obj) : obj[i][1] = k
    THEN obj[CHOOSE i \in 1..Len(obj) : obj[i][1] = k][2]
    ELSE d

\* json.Unmarshal fails on text that is cut short and on a member that is
\* not a number where the struct has one.
UnmarshalFails(j) ==
    \/ ~j.closed
    \/ ~IsNumber(j.total_beans)
    \/ ~IsNumber(j.exported_at)
    \/ \E i \in 1..Len(j.transactions) :
          \E k \in {"id", "amount", "created_at"} :
              ~IsNumber(Member(j.transactions[i], k, "0"))

\* json.Unmarshal of a transaction reading an absent note as "null".
UnmarshalItemAbsentNote(obj) ==
    [ID |-> ParseInt(Member(obj, "id", "0")),
     FromUser |-> Member(obj, "from_user", ""),
     ToUser |-> Member(obj, "to_user", ""),
     Amount |-> ParseInt(Member(obj, "amount", "0")),
     Note |-> Member(obj, "note", "null"),
     CreatedAt |-> ParseInt(Member(obj, "created_at", "0"))]

\* json.Unmarshal into a TransactionExportItem: an absent member leaves the
\* field at its zero value.
UnmarshalItem(obj) ==
    [ID |-> ParseInt(Member(obj, "id", "0")),
     FromUser |-> Member(obj, "from_user", ""),
     ToUser |-> Member(obj, "to_user", ""),
     Amount |-> ParseInt(Member(obj, "amount", "0")),
     Note |-> Member(obj, "note", ""),
     CreatedAt |-> ParseInt(Member(obj, "created_at", "0"))]

\* json.Unmarshal into a TransactionExport (line 98).
Unmarshal(j) ==
    [UserID |-> j.user_id, Username |-> j.username, Email |-> j.email,
     TotalBeans |-> ParseInt(j.total_beans),
     Transactions |-> [i \in 1..Len(j.transactions) |-> UnmarshalItem(j.transactions[i])],
     ExportedAt |-> ParseInt(j.exported_at), Signature |-> j.signature]

\* signExport as a plain digest of the encoding, without the key.
signExportUnkeyed(e, key) == <<"", Marshal([e EXCEPT !.Signature = <<>>])>>

\* signExport, lines 131-145: HMAC-SHA256 under the key over the encoding
\* of the document with its signature member cleared.  The MAC is ideal:
\* two signatures are equal exactly when key and signed bytes are.
signExport(e, key) == <<key, Marshal([e EXCEPT !.Signature = <<>>])>>

\* ExportTransactions, lines 52-59: the account is read.
ExportTransactions(p, username) ==
    /\ pc[p] = "idle"
    /\ UNCHANGED <<now, tokens, export>>
    /\ IF ~users[username].exists
       THEN Rollback(p, "ExportTransactions", "ErrUserNotFound")
       ELSE /\ pc' = [pc EXCEPT ![p] = "findTransactions"]
            /\ op' = [op EXCEPT ![p] = "ExportTransactions"]
            /\ local' = [local EXCEPT ![p].username = username,
                                      ![p].amount = users[username].BeanAmount]
            /\ UNCHANGED <<dbvars, lockvars, xfer, last>>

\* ExportTransactions, lines 61-93: the account's entries are read, the
\* snapshot is stamped, signed and returned.
ExportTransactionsSign(p) ==
    /\ pc[p] = "findTransactions"
    /\ LET doc == [UserID |-> local[p].username, Username |-> local[p].username,
                   Email |-> "", TotalBeans |-> local[p].amount,
                   Transactions |-> FindByUsername(local[p].username),
                   ExportedAt |-> now, Signature |-> <<>>]
       IN  export' = [exists |-> TRUE,
                      doc |-> [doc EXCEPT !.Signature = signExport(doc, signingKey)]]
    /\ Rollback(p, "ExportTransactions", "ok")
    /\ UNCHANGED <<now, tokens>>

\* VerifyExport, lines 96-111, by a service configured with key: what it
\* returns for a serialized document and a signature.
VerifyExportResult(key, exportData, signature) ==
    IF UnmarshalFails(exportData) THEN "ErrInvalidExport"
    ELSE IF signExport([Unmarshal(exportData) EXCEPT !.Signature = <<>>], key)
               = signature
    THEN "valid"
    ELSE "invalid"

VerifyExport(p, key, exportData, signature) ==
    /\ pc[p] = "idle"
    /\ UNCHANGED <<now, othervars>>
    /\ Rollback(p, "VerifyExport", VerifyExportResult(key, exportData, signature))

\* VerifyExportData without the check for an empty signature.
VerifyExportDataNoEmptyCheck(key, exportData) ==
    IF signExport([exportData EXCEPT !.Signature = <<>>], key)
          = exportData.Signature
    THEN "valid"
    ELSE "invalid"

\* VerifyExportData, lines 113-129, by a service configured with key: what
\* it returns for a snapshot.
VerifyExportDataResult(key, exportData) ==
    IF exportData.Signature = <<>> THEN "ErrInvalidExport"
    ELSE IF signExport([exportData EXCEPT !.Signature = <<>>], key)
               = exportData.Signature
    THEN "valid"
    ELSE "invalid"

VerifyExportData(p, key, exportData) ==
    /\ pc[p] = "idle"
    /\ UNCHANGED <<now, othervars>>
    /\ Rollback(p, "VerifyExportData", VerifyExportDataResult(key, exportData))

\* ------------------------------------------------------- specifications
Callers == {"alice", "bob"}

\* Transfer engine and wallet creation.
Next ==
    \/ \E p \in Procs, f \in Callers, t \in Callers, a \in Amounts,
          force \in BOOLEAN : Transfer(p, f, t, a, force)
    \/ \E p \in Procs : TransferCommit(p)
    \/ \E p \in Procs, n \in Callers : GetOrCreateWallet(p, n)
    \/ \E p \in Procs : CreateWallet(p)
    \/ \E p \in Procs : DeadlockAbort(p)

Spec == Init /\ [][Next]_vars

ExpiryInputs == {"never", "1h", "soon"}

\* The account that pays: it creates the gift links and sends the transfers
\* of the sequential specification.
Payers == {"alice"}

\* Gift-link escrow.
NextGift ==
    \/ \E p \in Procs, n \in Names : GetOrCreateWallet(p, n)
    \/ \E p \in Procs : CreateWallet(p)
    \/ \E p \in Procs, n \in Payers, a \in Amounts, e \in ExpiryInputs :
          CreateGiftLink(p, n, a, e)
    \/ \E p \in Procs : TransferInTxLockFrom(p)
    \/ \E p \in Procs : CreateGiftLinkCommit(p)
    \/ \E p \in Procs, c \in Codes, n \in Callers : RedeemGiftLink(p, c, n)
    \/ \E p \in Procs : RedeemGiftLinkCommit(p)
    \/ \E p \in Procs, c \in Codes, n \in Callers : DeleteGiftLink(p, c, n)
    \/ \E p \in Procs : DeleteGiftLinkRefund(p)
    \/ \E p \in Procs : DeleteGiftLinkSave(p)
    \/ \E p \in Procs : DeadlockAbort(p)
    \/ Tick

SpecGift == Init /\ [][NextGift]_vars

\* Gift links that are created and redeemed, never deleted.
NextRedeem ==
    \/ \E p \in Procs, n \in Names : GetOrCreateWallet(p, n)
    \/ \E p \in Procs : CreateWallet(p)
    \/ \E p \in Procs, n \in Payers, a \in Amounts, e \in ExpiryInputs :
          CreateGiftLink(p, n, a, e)
    \/ \E p \in Procs : TransferInTxLockFrom(p)
    \/ \E p \in Procs : CreateGiftLinkCommit(p)
    \/ \E p \in Procs, c \in Codes, n \in Callers : RedeemGiftLink(p, c, n)
    \/ \E p \in Procs : RedeemGiftLinkCommit(p)
    \/ Tick

SpecRedeem == Init /\ [][NextRedeem]_vars

Rewards == 1..MaxAmount

\* The titles the administrator gives a harvest, and the one title of the
\* specifications that are not about the ledger note.
Titles == {"beans", "corn"}
OneTitle == {"beans"}

\* The client that administers the harvests; every client completes them.
Admins == {"p1"}

\* Harvest payout.
NextHarvest ==
    \/ \E p \in Admins, n \in Callers : GetOrCreateWallet(p, n)
    \/ \E p \in Admins : CreateWallet(p)
    \/ \E p \in Admins, t \in OneTitle, a \in Rewards : CreateHarvest(p, t, a)
    \/ \E p \in Admins, h \in HarvestIDs, t \in OneTitle, a \in Rewards :
          UpdateHarvest(p, h, t, a)
    \/ \E p \in Admins : UpdateHarvestSave(p)
    \/ \E p \in Admins, h \in HarvestIDs, n \in Callers : AssignUser(p, h, n)
    \/ \E p \in Admins : AssignUserSave(p)
    \/ \E p \in Procs, h \in HarvestIDs : CompleteHarvest(p, h)
    \/ \E p \in Procs : CompleteHarvestCommit(p)

SpecHarvest == Init /\ [][NextHarvest]_vars

\* Harvest payout with every account, the system account included, as a
\* possible assignee, and with titles that differ.
Assignees == Payers \cup {"system"}

NextPayout ==
    \/ \E p \in Admins, n \in Assignees : GetOrCreateWallet(p, n)
    \/ \E p \in Admins : CreateWallet(p)
    \/ \E p \in Admins, t \in Titles, a \in Rewards : CreateHarvest(p, t, a)
    \/ \E p \in Admins, h \in HarvestIDs, n \in Assignees : AssignUser(p, h, n)
    \/ \E p \in Admins : AssignUserSave(p)
    \/ \E p \in Procs, h \in HarvestIDs : CompleteHarvest(p, h)
    \/ \E p \in Procs : CompleteHarvestCommit(p)

SpecPayout == Init /\ [][NextPayout]_vars

\* API tokens: one client manages the accounts and the tokens, every client
\* presents tokens, and the clock runs.
NextToken ==
    \/ \E p \in Admins, n \in Callers : GetOrCreateWallet(p, n)
    \/ \E p \in Admins : CreateWallet(p)
    \/ \E p \in Admins, n \in Callers, d \in TokenDurations : GenerateToken(p, n, d)
    \/ \E p \in Admins : GenerateTokenCreate(p)
    \/ \E p \in Procs, t \in TokenInputs : ValidateToken(p, t)
    \/ \E p \in Procs : ValidateTokenFind(p)
    \/ \E p \in Procs : ValidateTokenExpiry(p)
    \/ \E p \in Admins, i \in TokenIDs, n \in Callers : DeleteToken(p, i, n)
    \/ Tick

SpecToken == Init /\ [][NextToken]_vars

\* Every expiry policy a caller can name: the four durations, the two ways
\* to ask for none, and a string parseExpiry does not know.
ExpiryPolicies == {"1h", "24h", "7d", "30d", "never", "", "soon"}

\* Gift links under every expiry policy: one client opens the paying account
\* and creates the links, every client redeems, and the clock runs.
NextExpiry ==
    \/ \E p \in Admins, n \in Payers : GetOrCreateWallet(p, n)
    \/ \E p \in Admins : CreateWallet(p)
    \/ \E p \in Admins, n \in Payers, a \in Amounts, e \in ExpiryPolicies :
          CreateGiftLink(p, n, a, e)
    \/ \E p \in Procs : TransferInTxLockFrom(p)
    \/ \E p \in Admins : CreateGiftLinkCommit(p)
    \/ \E p \in Procs, c \in Codes, n \in Callers : RedeemGiftLink(p, c, n)
    \/ \E p \in Procs : RedeemGiftLinkCommit(p)
    \/ Tick

SpecExpiry == Init /\ [][NextExpiry]_vars

\* What a client can do to one member of a snapshot before sending it back
\* for verification: each element differs from e in exactly one signed
\* member.
OtherName(n) == IF n = "alice" THEN "bob" ELSE "alice"

Tampered(e) ==
    {[e EXCEPT !.UserID = OtherName(@)], [e EXCEPT !.Username = OtherName(@)],
     [e EXCEPT !.Email = "mallory@example.org"],
     [e EXCEPT !.TotalBeans = @ + 1], [e EXCEPT !.ExportedAt = @ + 1]}
    \cup UNION {{[e EXCEPT !.Transactions[i].ID = @ + 1],
                 [e EXCEPT !.Transactions[i].FromUser = OtherName(@)],
                 [e EXCEPT !.Transactions[i].ToUser = OtherName(@)],
                 [e EXCEPT !.Transactions[i].Amount = @ + 1],
                 [e EXCEPT !.Transactions[i].Note = IF @ = "" THEN "gift" ELSE ""],
                 [e EXCEPT !.Transactions[i].CreatedAt = @ + 1]}
                : i \in 1..Len(e.Transactions)}

\* The signatures a client can send: the one it was given, none, and one
\* made with a key of its own.
SignatureInputs ==
    IF export.exists
    THEN {export.doc.Signature, <<>>, signExport(export.doc, "other-key")}
    ELSE {<<>>}

\* The snapshots a client posts to the verification endpoint
\* (handlers/export.go, lines 66-84): the one it was given or one with the
\* balance raised, under each of the signatures.
SnapshotInputs ==
    IF export.exists
    THEN {[d EXCEPT !.Signature = s] :
             d \in {export.doc, [export.doc EXCEPT !.TotalBeans = @ + 1]},
             s \in SignatureInputs}
    ELSE {}

\* Text that json.Unmarshal rejects: a document cut short, and a word where
\* a number belongs.
Malformed(j) == {[j EXCEPT !.closed = FALSE], [j EXCEPT !.total_beans = "many"]}

\* The serialized documents a caller hands to VerifyExport.
SerializedInputs ==
    IF export.exists
    THEN {Marshal(export.doc), Marshal([export.doc EXCEPT !.TotalBeans = @ + 1])}
         \cup Malformed(Marshal(export.doc))
    ELSE {}

\* Signed exports: one client manages accounts, transfers and a harvest,
\* another exports and verifies.  Verification reads nothing of the store,
\* so the store is built up first and left alone once the snapshot of the
\* run is handed out.
Building == ~export.exists
Auditors == {"p2"}

NextExport ==
    \/ \E p \in Admins, n \in Callers : Building /\ GetOrCreateWallet(p, n)
    \/ \E p \in Admins : Building /\ CreateWallet(p)
    \/ \E p \in Admins, f \in Payers, t \in Callers, a \in Amounts :
          Building /\ Transfer(p, f, t, a, FALSE)
    \/ \E p \in Admins : Building /\ TransferCommit(p)
    \/ \E p \in Admins, t \in OneTitle, a \in Rewards :
          Building /\ CreateHarvest(p, t, a)
    \/ \E p \in Admins, h \in HarvestIDs, n \in Payers :
          Building /\ AssignUser(p, h, n)
    \/ \E p \in Admins : Building /\ AssignUserSave(p)
    \/ \E p \in Admins, h \in HarvestIDs : Building /\ CompleteHarvest(p, h)
    \/ \E p \in Admins : Building /\ CompleteHarvestCommit(p)
    \/ \E p \in Auditors, n \in Callers : Building /\ ExportTransactions(p, n)
    \/ \E p \in Auditors : ExportTransactionsSign(p)
    \/ \E p \in Auditors, k \in SigningKeys, d \in SerializedInputs,
          s \in SignatureInputs \ {<<>>} : VerifyExport(p, k, d, s)
    \/ \E p \in Auditors, k \in SigningKeys, d \in SnapshotInputs :
          VerifyExportData(p, k, d)

SpecExport == Init /\ [][NextExport]_vars

\* The debits: transfers out of the paying account next to the gift-link
\* escrow on the same account, with redemptions and refunds.
NextDebit ==
    \/ \E p \in Admins, n \in Callers : GetOrCreateWallet(p, n)
    \/ \E p \in Admins : CreateWallet(p)
    \/ \E p \in Procs, f \in Payers, t \in Callers, a \in Amounts :
          Transfer(p, f, t, a, FALSE)
    \/ \E p \in Procs : TransferCommit(p)
    \/ \E p \in Procs, n \in Payers, a \in Amounts, e \in ExpiryInputs :
          CreateGiftLink(p, n, a, e)
    \/ \E p \in Procs : TransferInTxLockFrom(p)
    \/ \E p \in Procs : CreateGiftLinkCommit(p)
    \/ \E p \in Procs, c \in Codes, n \in Callers : RedeemGiftLink(p, c, n)
    \/ \E p \in Procs : RedeemGiftLinkCommit(p)
    \/ \E p \in Procs, c \in Codes, n \in Callers : DeleteGiftLink(p, c, n)
    \/ \E p \in Procs : DeleteGiftLinkRefund(p)
    \/ \E p \in Procs : DeleteGiftLinkSave(p)
    \/ \E p \in Procs : DeadlockAbort(p)

SpecDebit == Init /\ [][NextDebit]_vars

\* The operations that can change the sum of the balances, called by one
\* client, one call after another: wallet creation, the administrative
\* balance override, transfers and the harvest life cycle.
Clients == {"p1"}

NextMint ==
    \/ \E p \in Clients, f \in Payers, t \in Callers, a \in Amounts,
          force \in BOOLEAN : Transfer(p, f, t, a, force)
    \/ \E p \in Clients : TransferCommit(p)
    \/ \E p \in Clients, n \in Payers : GetOrCreateWallet(p, n)
    \/ \E p \in Clients : CreateWallet(p)
    \/ \E p \in Clients, n \in Payers, a \in Amounts : UpdateBalance(p, n, a)
    \/ \E p \in Clients, t \in OneTitle, a \in Rewards : CreateHarvest(p, t, a)
    \/ \E p \in Clients, h \in HarvestIDs, n \in Callers : AssignUser(p, h, n)
    \/ \E p \in Clients : AssignUserSave(p)
    \/ \E p \in Clients, h \in HarvestIDs : CompleteHarvest(p, h)
    \/ \E p \in Clients : CompleteHarvestCommit(p)

SpecMint == Init /\ [][NextMint]_vars

\* Everything that writes to the store, by one client, one call after
\* another: wallets, the administrative balance override, transfers, gift
\* links and the harvest life cycle.
NextLedger ==
    \/ \E p \in Clients, n \in Payers : GetOrCreateWallet(p, n)
    \/ \E p \in Clients : CreateWallet(p)
    \/ \E p \in Clients, n \in Payers, a \in Rewards : UpdateBalance(p, n, a)
    \/ \E p \in Clients, f \in Payers, t \in Callers \ Payers, a \in Amounts,
          force \in BOOLEAN : Transfer(p, f, t, a, force)
    \/ \E p \in Clients : TransferCommit(p)
    \/ \E p \in Clients, n \in Payers, a \in Amounts :
          CreateGiftLink(p, n, a, "never")
    \/ \E p \in Clients : TransferInTxLockFrom(p)
    \/ \E p \in Clients : CreateGiftLinkCommit(p)
    \/ \E p \in Clients, c \in Codes, n \in Callers \ Payers :
          RedeemGiftLink(p, c, n)
    \/ \E p \in Clients : RedeemGiftLinkCommit(p)
    \/ \E p \in Clients, c \in Codes, n \in Payers : DeleteGiftLink(p, c, n)
    \/ \E p \in Clients : DeleteGiftLinkRefund(p)
    \/ \E p \in Clients : DeleteGiftLinkSave(p)
    \/ \E p \in Clients, t \in OneTitle, a \in Rewards : CreateHarvest(p, t, a)
    \/ \E p \in Clients, h \in HarvestIDs, n \in Payers : AssignUser(p, h, n)
    \/ \E p \in Clients : AssignUserSave(p)
    \/ \E p \in Clients, h \in HarvestIDs : CompleteHarvest(p, h)
    \/ \E p \in Clients : CompleteHarvestCommit(p)

SpecLedger == Init /\ [][NextLedger]_vars

\* The harvest life cycle as HarvestService offers it to its callers: the
\* reward is whatever integer the caller passes (lines 186-218 check
\* nothing), next to transfers and gift links of the paying account.
NextReward ==
    \/ \E p \in Clients, n \in Payers : GetOrCreateWallet(p, n)
    \/ \E p \in Clients : CreateWallet(p)
    \/ \E p \in Clients, f \in Payers, t \in Callers, a \in Amounts :
          Transfer(p, f, t, a, TRUE)
    \/ \E p \in Clients : TransferCommit(p)
    \/ \E p \in Clients, n \in Payers, a \in Amounts :
          CreateGiftLink(p, n, a, "never")
    \/ \E p \in Clients : TransferInTxLockFrom(p)
    \/ \E p \in Clients : CreateGiftLinkCommit(p)
    \/ \E p \in Clients, c \in Codes, n \in Callers : RedeemGiftLink(p, c, n)
    \/ \E p \in Clients : RedeemGiftLinkCommit(p)
    \/ \E p \in Clients, c \in Codes, n \in Payers : DeleteGiftLink(p, c, n)
    \/ \E p \in Clients : DeleteGiftLinkRefund(p)
    \/ \E p \in Clients : DeleteGiftLinkSave(p)
    \/ \E p \in Clients, t \in OneTitle, a \in Amounts : CreateHarvest(p, t, a)
    \/ \E p \in Clients, h \in HarvestIDs, t \in OneTitle, a \in Amounts :
          UpdateHarvest(p, h, t, a)
    \/ \E p \in Clients : UpdateHarvestSave(p)
    \/ \E p \in Clients, h \in HarvestIDs, n \in Payers : AssignUser(p, h, n)
    \/ \E p \in Clients : AssignUserSave(p)
    \/ \E p \in Clients, h \in HarvestIDs : CompleteHarvest(p, h)
    \/ \E p \in Clients : CompleteHarvestCommit(p)

SpecReward == Init /\ [][NextReward]_vars


\* The account of the system: gift links hold their escrow in it.
SystemAccount == {"system"}

\* Gift-link operations next to transfers that pay into the system account:
\* two clients whose transactions lock the same two account rows.
NextOrder ==
    \/ \E p \in Admins, n \in Names : GetOrCreateWallet(p, n)
    \/ \E p \in Admins : CreateWallet(p)
    \/ \E p \in Admins, n \in Payers, a \in Rewards :
          CreateGiftLink(p, n, a, "never")
    \/ \E p \in Procs : TransferInTxLockFrom(p)
    \/ \E p \in Admins : CreateGiftLinkCommit(p)
    \/ \E p \in Procs, f \in Callers, t \in SystemAccount, a \in Rewards :
          Transfer(p, f, t, a, FALSE)
    \/ \E p \in Procs : TransferCommit(p)
    \/ \E p \in Procs, c \in Codes, n \in Callers : RedeemGiftLink(p, c, n)
    \/ \E p \in Procs : RedeemGiftLinkCommit(p)
    \/ \E p \in Procs, c \in Codes, n \in Payers : DeleteGiftLink(p, c, n)
    \/ \E p \in Procs : DeleteGiftLinkRefund(p)
    \/ \E p \in Procs : DeleteGiftLinkSave(p)
    \/ \E p \in Procs : DeadlockAbort(p)

SpecOrder == Init /\ [][NextOrder]_vars


\* Transfers among three accounts by two clients, so that two transfers in
\* flight can share an account without naming the same pair.
NextSerial ==
    \/ \E p \in Admins, n \in Names : GetOrCreateWallet(p, n)
    \/ \E p \in Admins : CreateWallet(p)
    \/ \E p \in Procs, f \in Names, t \in Names, a \in Rewards,
          force \in BOOLEAN : Transfer(p, f, t, a, force)
    \/ \E p \in Procs : TransferCommit(p)
    \/ \E p \in Procs : DeadlockAbort(p)

SpecSerial == Init /\ [][NextSerial]_vars


\* Every input of Transfer, valid or not, from one client, while any client
\* may create the wallets the transfers name.
NextChecks ==
    \/ \E p \in Procs, n \in Callers : GetOrCreateWallet(p, n)
    \/ \E p \in Procs : CreateWallet(p)
    \/ \E p \in Clients, f \in Callers, t \in Names, a \in Amounts,
          force \in BOOLEAN : Transfer(p, f, t, a, force)
    \/ \E p \in Clients : TransferCommit(p)

SpecChecks == Init /\ [][NextChecks]_vars


\* The accounts that are paid: recipients of transfers and redeemers.
Payees == Callers \ Payers

\* Every way an account row comes into being, from two clients at once:
\* GetOrCreateWallet, a transfer that creates its recipient, the escrow that
\* creates the system account and a redemption that creates the redeemer.
NextCreate ==
    \/ \E p \in Procs, n \in Names : GetOrCreateWallet(p, n)
    \/ \E p \in Procs : CreateWallet(p)
    \/ \E p \in Procs, f \in Payers, t \in Payees, a \in Rewards :
          Transfer(p, f, t, a, TRUE)
    \/ \E p \in Procs : TransferCommit(p)
    \/ \E p \in Admins, n \in Payers, a \in Rewards :
          CreateGiftLink(p, n, a, "never")
    \/ \E p \in Procs : TransferInTxLockFrom(p)
    \/ \E p \in Admins : CreateGiftLinkCommit(p)
    \/ \E p \in Procs, c \in Codes, n \in Payees : RedeemGiftLink(p, c, n)
    \/ \E p \in Procs : RedeemGiftLinkCommit(p)

SpecCreate == Init /\ [][NextCreate]_vars


\* No call is in flight.
Quiet == \A p \in Procs : pc[p] = "idle"

\* Gift links that expire: the clock moves between the calls, so a call in
\* flight sees one time from its first read to its return.
NextRecover ==
    \/ \E p \in Admins, n \in Names : GetOrCreateWallet(p, n)
    \/ \E p \in Admins : CreateWallet(p)
    \/ \E p \in Admins, n \in Payers, a \in Rewards :
          CreateGiftLink(p, n, a, "1h")
    \/ \E p \in Procs : TransferInTxLockFrom(p)
    \/ \E p \in Admins : CreateGiftLinkCommit(p)
    \/ \E p \in Procs, c \in Codes, n \in Callers : RedeemGiftLink(p, c, n)
    \/ \E p \in Procs : RedeemGiftLinkCommit(p)
    \/ \E p \in Procs, c \in Codes, n \in Payers : DeleteGiftLink(p, c, n)
    \/ \E p \in Procs : DeleteGiftLinkRefund(p)
    \/ \E p \in Procs : DeleteGiftLinkSave(p)
    \/ \E p \in Procs : DeadlockAbort(p)
    \/ Quiet /\ Tick

SpecRecover == Init /\ [][NextRecover]_vars


\* ================================================================ claims
TransferErrors == {"ErrInvalidAmount", "ErrSelfTransfer", "ErrUserNotFound",
                   "ErrInsufficientBalance", "ErrRecipientNotFound"}

\* A step of a Transfer call of process p: its validation and sender lock,
\* or its recipient lookup and commit.
TransferStep(p) ==
    \/ \E f \in Names, t \in Names, a \in Amounts, force \in BOOLEAN :
          Transfer(p, f, t, a, force)
    \/ TransferCommit(p)

LastEntry == ledger[Len(ledger)]

\* C1 - Conservation: no step of a transfer, successful or failing, changes
\* the sum of all account balances.
C1_Conservation ==
    [][GetTotalBeans(users') # GetTotalBeans(users)
          => \A p \in Procs : ~TransferStep(p)]_vars

\* A transfer between two existing accounts has committed.
C1_Witness ==
    /\ last = [op |-> "Transfer", result |-> "ok"]
    /\ Len(ledger) = 1
    /\ users["alice"].exists /\ users["bob"].exists
    /\ GetTotalBeans(users) = 2

\* What a step adds to the sum of all balances.
SumChange == GetTotalBeans(users') - GetTotalBeans(users)

\* CreateWallet inserts the row of an absent account.
FirstTimeCreation(p) == CreateWallet(p) /\ ~users[local[p].username].exists

C3_AtomicFailure ==
    [][(last'.result \in TransferErrors /\ <<users, ledger>>' # <<users, ledger>>)
          => \A p \in Procs : ~TransferStep(p)]_vars

\* A transfer has failed on the recipient lookup, after the sender was locked.
C3_Witness ==
    /\ last = [op |-> "Transfer", result |-> "ErrRecipientNotFound"]
    /\ \E n \in Callers : users[n].exists /\ users[n].BeanAmount >= 1
    /\ \E n \in Callers : ~users[n].exists

\* C4 - Transfer lock ordering: two concurrent opposite-direction transfers
\* never reach a state where each holds one account lock and waits for the
\* lock the other holds.
C4_NoCircularWait ==
    \A p \in Procs, q \in Procs : ~(WaitsFor(p, q) /\ WaitsFor(q, p))

\* C5 - No double-redeem: once a gift link bears a redemption stamp it keeps
\* it, and every RedeemGiftLink call with its code, by any user, returns
\* GiftLinkRedeemed and leaves the balances, the ledger and the link
\* unchanged.
C5_NoDoubleRedeem ==
    [][\A c \in Codes :
          (giftLinks[c].exists /\ giftLinks[c].RedeemedAt # NoTime)
             => /\ giftLinks'[c].RedeemedAt # NoTime
                /\ \A p \in Procs, n \in Names :
                      RedeemGiftLink(p, c, n)
                         => /\ last' = [op |-> "RedeemGiftLink",
                                        result |-> "ErrGiftLinkRedeemed"]
                            /\ UNCHANGED dbvars]_vars

\* Ledger entries that pay out of the system account.
SystemPayouts == {i \in 1..Len(ledger) : ledger[i].FromUser = "system"}

\* Links that bear a redemption stamp.
RedeemedLinks ==
    {c \in Codes : giftLinks[c].exists /\ giftLinks[c].RedeemedAt # NoTime}

\* C6 - Concurrent redemption: among concurrent RedeemGiftLink calls on one
\* link at most one commits; it commits on a link that is still active and
\* unredeemed while no other redemption of it is in flight, and takes the
\* escrowed amount out of system once; a call that finds the stamp returns
\* GiftLinkRedeemed and changes nothing; so the payouts of system are as many
\* as the redeemed links.
C6_ConcurrentRedemption ==
    /\ [](Cardinality(SystemPayouts) = Cardinality(RedeemedLinks))
    /\ [][\A p \in Procs :
             /\ RedeemGiftLinkCommit(p)
                   => /\ giftLinks[local[p].id].Active
                      /\ giftLinks[local[p].id].RedeemedAt = NoTime
                      /\ \A q \in Procs \ {p} :
                            ~(op[q] = "RedeemGiftLink" /\ local[q].id = local[p].id)
                      /\ users'["system"].BeanAmount =
                            users["system"].BeanAmount - giftLinks[local[p].id].Amount
                      /\ giftLinks'[local[p].id].RedeemedAt # NoTime
             /\ \A c \in Codes, n \in Names :
                   (/\ giftLinks[c].exists
                    /\ giftLinks[c].RedeemedAt # NoTime
                    /\ RedeemGiftLink(p, c, n))
                      => /\ last' = [op |-> "RedeemGiftLink",
                                     result |-> "ErrGiftLinkRedeemed"]
                         /\ UNCHANGED dbvars]_vars

\* A link was redeemed once and another redemption of it was refused.
C6_Witness ==
    /\ last = [op |-> "RedeemGiftLink", result |-> "ErrGiftLinkRedeemed"]
    /\ Cardinality(RedeemedLinks) = 1
    /\ Cardinality(SystemPayouts) = 1
    /\ \E c \in RedeemedLinks :
          /\ users[giftLinks[c].RedeemedBy].BeanAmount >= giftLinks[c].Amount
          /\ ~giftLinks[c].Active

\* C7 - Idempotent completion: a completed harvest stays completed, every
\* CompleteHarvest call on it returns HarvestAlreadyCompleted, credits
\* nothing and appends no ledger entry, and a completion commits only on a
\* harvest that is not completed, so one of two concurrent calls mints.
C7_IdempotentCompletion ==
    [][/\ \A h \in HarvestIDs :
             harvests[h].Completed
                => /\ harvests'[h].Completed
                   /\ \A p \in Procs :
                         CompleteHarvest(p, h)
                            => /\ last' = [op |-> "CompleteHarvest",
                                           result |-> "ErrHarvestAlreadyCompleted"]
                               /\ UNCHANGED dbvars
       /\ \A p \in Procs :
             CompleteHarvestCommit(p) => ~harvests[local[p].id].Completed]_vars

\* C8 - Successful transfer effect: a transfer with amount > 0, from # to and
\* a sender holding at least amount is not rejected by the sender checks;
\* when the recipient exists too it returns ok, takes exactly amount from
\* the sender, gives exactly amount to the recipient, leaves every other
\* account alone and appends exactly the entry (from, to, amount).
C8_TransferEffect ==
    [][\A p \in Procs :
          /\ (pc[p] = "idle" /\ pc'[p] # "lockTo")
                => \A f \in Names, t \in Names, a \in Amounts, force \in BOOLEAN :
                      (/\ a > 0 /\ f # t
                       /\ users[f].exists /\ users[f].BeanAmount >= a)
                         => ~Transfer(p, f, t, a, force)
          /\ (TransferCommit(p) /\ users[xfer[p].toUsername].exists)
                => /\ users[xfer[p].fromUsername].exists
                   /\ users[xfer[p].fromUsername].BeanAmount >= xfer[p].amount
                   /\ last' = [op |-> "Transfer", result |-> "ok"]
                   /\ users' = [users EXCEPT
                         ![xfer[p].fromUsername].BeanAmount = @ - xfer[p].amount,
                         ![xfer[p].toUsername].BeanAmount = @ + xfer[p].amount]
                   /\ ledger' = Append(ledger,
                         [FromUser |-> xfer[p].fromUsername,
                          ToUser |-> xfer[p].toUsername,
                          Amount |-> xfer[p].amount, Note |-> ""])]_vars

\* A transfer has moved one bean to a recipient that held its own bean.
C8_Witness ==
    /\ last = [op |-> "Transfer", result |-> "ok"]
    /\ ledger # <<>>
    /\ LastEntry.Amount = 1
    /\ users[LastEntry.ToUser].BeanAmount = 2
    /\ users[LastEntry.FromUser].BeanAmount = 0

\* C9 - Forced recipient creation: when the recipient does not exist, a
\* transfer with force on creates it holding exactly amount (no bonus) and
\* keeps the sum of all balances; with force off it returns
\* RecipientNotFound and creates no account.
C9_ForcedCreation ==
    [][\A p \in Procs :
          (TransferCommit(p) /\ ~users[xfer[p].toUsername].exists)
             => IF xfer[p].force
                THEN /\ last' = [op |-> "Transfer", result |-> "ok"]
                     /\ users'[xfer[p].toUsername] =
                           [exists |-> TRUE, BeanAmount |-> xfer[p].amount]
                     /\ GetTotalBeans(users') = GetTotalBeans(users)
                ELSE /\ last' = [op |-> "Transfer",
                                 result |-> "ErrRecipientNotFound"]
                     /\ users' = users]_vars

\* A transfer has created its recipient: the only bean in the bank was minted
\* for the sender and is now held by the recipient.
C9_Witness ==
    /\ last = [op |-> "Transfer", result |-> "ok"]
    /\ Len(ledger) = 1
    /\ users[LastEntry.FromUser] = [exists |-> TRUE, BeanAmount |-> 0]
    /\ users[LastEntry.ToUser] = [exists |-> TRUE, BeanAmount |-> 1]
    /\ GetTotalBeans(users) = 1

\* C10 - getOrCreate bonus: GetOrCreateWallet creates an absent account with
\* balance exactly 1 and changes nothing when the account exists, whatever
\* its balance; an account never disappears, so the bonus is minted at most
\* once per username.
C10_GetOrCreateBonus ==
    [][/\ users' # users
             => \A p \in Procs, n \in Names : ~GetOrCreateWallet(p, n)
       /\ \A p \in Procs :
             CreateWallet(p) =>
                IF users[local[p].username].exists
                THEN users' = users
                ELSE users' = [users EXCEPT ![local[p].username] =
                                  [exists |-> TRUE, BeanAmount |-> 1]]
       /\ \A n \in Names : users[n].exists => users'[n].exists]_vars

\* GetOrCreateWallet has returned an account that a forced transfer created
\* and that holds no bean.
C10_Witness ==
    /\ last = [op |-> "GetOrCreateWallet", result |-> "ok"]
    /\ Len(ledger) = 2
    /\ \E n \in Callers : users[n] = [exists |-> TRUE, BeanAmount |-> 0]
    /\ GetTotalBeans(users) = 1

\* The balance of the system account, 0 when it has no row yet.
SystemBeans == IF users["system"].exists THEN users["system"].BeanAmount ELSE 0

\* C11 - Gift-link creation escrows funds: a CreateGiftLink call with
\* amount > 0 and an owner holding at least amount passes the checks; its
\* commit takes exactly amount from the owner, gives exactly amount to system
\* (created with balance 0 when absent), inserts exactly one link, active,
\* unstamped and of that amount, and appends the ledger entry, in one step;
\* a call that ends in any other way commits nothing.
C11_CreateEscrows ==
    [][\A p \in Procs :
          /\ (pc[p] = "idle" /\ pc'[p] = "idle" /\ last'.op = "CreateGiftLink")
                => \A n \in Names, a \in Amounts, e \in ExpiryInputs :
                      (a > 0 /\ users[n].exists /\ users[n].BeanAmount >= a)
                         => ~CreateGiftLink(p, n, a, e)
          /\ CreateGiftLinkCommit(p)
                => /\ last' = [op |-> "CreateGiftLink", result |-> "ok"]
                   /\ users[xfer[p].fromUsername].exists
                   /\ users[xfer[p].fromUsername].BeanAmount >= xfer[p].amount
                   /\ users' = [users EXCEPT
                         ![xfer[p].fromUsername].BeanAmount = @ - xfer[p].amount,
                         !["system"] = [exists |-> TRUE,
                                        BeanAmount |-> SystemBeans + xfer[p].amount]]
                   /\ \E c \in Codes :
                         /\ ~giftLinks[c].exists
                         /\ giftLinks' = [giftLinks EXCEPT ![c] =
                               [exists |-> TRUE,
                                FromUser |-> xfer[p].fromUsername,
                                Amount |-> xfer[p].amount,
                                ExpiresAt |-> local[p].expiry,
                                RedeemedAt |-> NoTime, RedeemedBy |-> NoUser,
                                Active |-> TRUE]]
                   /\ ledger' = Append(ledger,
                         [FromUser |-> xfer[p].fromUsername, ToUser |-> "system",
                          Amount |-> xfer[p].amount, Note |-> ""])
          /\ (op[p] = "CreateGiftLink" /\ op'[p] # "CreateGiftLink"
                 /\ ~CreateGiftLinkCommit(p))
                => UNCHANGED dbvars]_vars

\* A link was created by an owner who escrowed the only bean; system was
\* created by the escrow and holds exactly that bean.
C11_Witness ==
    /\ last = [op |-> "CreateGiftLink", result |-> "ok"]
    /\ Len(ledger) = 1
    /\ users["system"] = [exists |-> TRUE, BeanAmount |-> 1]
    /\ \E c \in Codes :
          /\ giftLinks[c].exists /\ giftLinks[c].Active
          /\ giftLinks[c].RedeemedAt = NoTime
          /\ giftLinks[c].Amount = 1
          /\ users[giftLinks[c].FromUser].BeanAmount = 0
    /\ GetTotalBeans(users) = 1

\* The check of CreateGiftLink that fails first for owner n and amount a,
\* "none" when all pass.
CreateRejection(n, a) ==
    IF a <= 0 THEN "ErrInvalidAmount"
    ELSE IF ~users[n].exists THEN "ErrUserNotFound"
    ELSE IF users[n].BeanAmount < a THEN "ErrInsufficientBalanceForGift"
    ELSE "none"

\* C12 - Gift-link creation validation: CreateGiftLink returns InvalidAmount
\* when amount <= 0, UserNotFound when the owner has no account and
\* InsufficientBalanceForGift when the owner holds less than amount; each of
\* these calls changes no balance, appends no ledger entry and creates no
\* link.
C12_CreateValidation ==
    [][\A p \in Procs :
          (pc[p] = "idle" /\ (last'.op = "CreateGiftLink" \/ pc'[p] = "lockFrom"))
             => \A n \in Names, a \in Amounts :
                   (/\ CreateRejection(n, a) # "none"
                    /\ ~(/\ last' = [op |-> "CreateGiftLink",
                                      result |-> CreateRejection(n, a)]
                         /\ UNCHANGED dbvars))
                      => \A e \in ExpiryInputs : ~CreateGiftLink(p, n, a, e)]_vars

\* A second creation was refused because the owner's only bean is already
\* in escrow.
C12_Witness ==
    /\ last = [op |-> "CreateGiftLink", result |-> "ErrInsufficientBalanceForGift"]
    /\ \E c \in Codes :
          /\ giftLinks[c].exists /\ giftLinks[c].Active
          /\ users[giftLinks[c].FromUser] = [exists |-> TRUE, BeanAmount |-> 0]
    /\ Len(ledger) = 1

\* The link with code c can be redeemed by r now: it is active, unstamped,
\* not expired and not owned by r.
Redeemable(c, r) ==
    /\ giftLinks[c].exists
    /\ giftLinks[c].RedeemedAt = NoTime
    /\ giftLinks[c].Active
    /\ ~(giftLinks[c].ExpiresAt # NoTime /\ now > giftLinks[c].ExpiresAt)
    /\ giftLinks[c].FromUser # r

\* C13 - Successful redemption effect: RedeemGiftLink(code, r) on an active,
\* unexpired link owned by another account passes the checks; its commit
\* takes exactly the link's amount from system, gives exactly that amount to
\* r (created with balance 0, no bonus, when absent), leaves every other
\* balance alone, the owner's included, stamps the link with the time and r,
\* sets active=false and appends the ledger entry, in one step.
C13_RedeemEffect ==
    [][\A p \in Procs :
          /\ (pc[p] = "idle" /\ pc'[p] = "idle" /\ last'.op = "RedeemGiftLink")
                => \A c \in Codes, r \in Names :
                      Redeemable(c, r) => ~RedeemGiftLink(p, c, r)
          /\ RedeemGiftLinkCommit(p)
                => LET c == local[p].id
                       r == xfer[p].toUsername
                       a == giftLinks[local[p].id].Amount
                   IN  /\ last' = [op |-> "RedeemGiftLink", result |-> "ok"]
                       /\ giftLinks[c].Active /\ giftLinks[c].RedeemedAt = NoTime
                       /\ giftLinks[c].FromUser # r /\ r # "system"
                       /\ users["system"].exists
                       /\ users["system"].BeanAmount >= a
                       /\ users' = [users EXCEPT
                             !["system"].BeanAmount = @ - a,
                             ![r] = [exists |-> TRUE,
                                     BeanAmount |->
                                        (IF users[r].exists
                                         THEN users[r].BeanAmount ELSE 0) + a]]
                       /\ giftLinks' = [giftLinks EXCEPT
                             ![c].RedeemedAt = now, ![c].RedeemedBy = r,
                             ![c].Active = FALSE]
                       /\ ledger' = Append(ledger,
                             [FromUser |-> "system", ToUser |-> r,
                              Amount |-> a, Note |-> ""])]_vars

\* A link was redeemed by an account that the redemption created: the
\* redeemer holds exactly the escrowed bean and system holds none.
C13_Witness ==
    /\ last = [op |-> "RedeemGiftLink", result |-> "ok"]
    /\ Len(ledger) = 2
    /\ users["system"] = [exists |-> TRUE, BeanAmount |-> 0]
    /\ \E c \in Codes :
          /\ giftLinks[c].exists /\ ~giftLinks[c].Active
          /\ giftLinks[c].RedeemedAt # NoTime
          /\ giftLinks[c].RedeemedBy # giftLinks[c].FromUser
          /\ users[giftLinks[c].RedeemedBy] = [exists |-> TRUE, BeanAmount |-> 1]
          /\ users[giftLinks[c].FromUser].BeanAmount = 0
    /\ GetTotalBeans(users) = 1

\* The check of RedeemGiftLink that fails first for code c and redeemer r,
\* "none" when all pass.
RedeemRejection(c, r) ==
    IF ~giftLinks[c].exists THEN "ErrGiftLinkNotFound"
    ELSE IF giftLinks[c].RedeemedAt # NoTime THEN "ErrGiftLinkRedeemed"
    ELSE IF ~giftLinks[c].Active THEN "ErrGiftLinkInactive"
    ELSE IF giftLinks[c].ExpiresAt # NoTime /\ now > giftLinks[c].ExpiresAt
    THEN "ErrGiftLinkExpired"
    ELSE IF giftLinks[c].FromUser = r THEN "ErrCannotRedeemOwnLink"
    ELSE "none"

\* C14 - Redemption failure order: RedeemGiftLink returns the first failing
\* check in the order GiftLinkNotFound, GiftLinkRedeemed (stamp set),
\* GiftLinkInactive (active off), GiftLinkExpired, CannotRedeemOwnLink, so a
\* stamped link yields GiftLinkRedeemed and an unstamped inactive one
\* GiftLinkInactive; the failing call changes no balance, no ledger entry and
\* no link.
C14_RedeemFailureOrder ==
    [][\A p \in Procs :
          (pc[p] = "idle" /\ (last'.op = "RedeemGiftLink" \/ pc'[p] = "lockFrom"))
             => \A c \in Codes, r \in Names :
                   (/\ RedeemRejection(c, r) # "none"
                    /\ ~(/\ last' = [op |-> "RedeemGiftLink",
                                      result |-> RedeemRejection(c, r)]
                         /\ UNCHANGED dbvars))
                      => ~RedeemGiftLink(p, c, r)]_vars

\* A redemption of a stamped, inactive link was refused as already redeemed.
C14_Witness ==
    /\ last = [op |-> "RedeemGiftLink", result |-> "ErrGiftLinkRedeemed"]
    /\ \E c \in Codes :
          /\ giftLinks[c].exists /\ ~giftLinks[c].Active
          /\ giftLinks[c].RedeemedAt # NoTime
    /\ Len(ledger) = 2

\* C15 - Delete refund rule: a DeleteGiftLink that commits on a link that is
\* unredeemed and active moves exactly the escrowed amount from system back
\* to the owner and turns the link inactive; on a link that is redeemed or
\* inactive it changes no balance and no ledger entry and only leaves the
\* link inactive.  So a link is refunded at most once and a redeemed link is
\* never refunded.
C15_DeleteRefundRule ==
    [][\A p \in Procs :
          DeleteGiftLinkSave(p)
             => LET c == local[p].id
                    g == giftLinks[c]
                IN  /\ giftLinks' = [giftLinks EXCEPT ![c].Active = FALSE]
                    /\ IF g.RedeemedAt = NoTime /\ g.Active
                       THEN /\ users["system"].exists
                            /\ users' = [users EXCEPT
                                 !["system"].BeanAmount = @ - g.Amount,
                                 ![g.FromUser].BeanAmount = @ + g.Amount]
                            /\ Len(ledger') = Len(ledger) + 1
                            /\ LastEntry'.FromUser = "system"
                            /\ LastEntry'.ToUser = g.FromUser
                            /\ LastEntry'.Amount = g.Amount
                       ELSE UNCHANGED <<users, ledger>>]_vars

\* The error DeleteGiftLink(id, u) returns before its transaction for an
\* existing user u: GiftLinkNotFound for an id no link has, the ownership
\* error for a link of another user; "none" otherwise.
DeleteRejection(id, u) ==
    IF ~users[u].exists THEN "none"
    ELSE IF ~giftLinks[id].exists THEN "ErrGiftLinkNotFound"
    ELSE IF giftLinks[id].FromUser # u THEN "ErrNotOwner"
    ELSE "none"

\* C16 - Delete is owner-only: DeleteGiftLink(id, u) by an existing user u
\* who does not own the link returns the ownership error ("cannot delete gift
\* link you don't own"), and DeleteGiftLink of an id that no link has returns
\* GiftLinkNotFound; in both cases no balance, no ledger entry and no link
\* changes.
C16_DeleteOwnerOnly ==
    [][\A p \in Procs :
          (pc[p] = "idle" /\ (last'.op = "DeleteGiftLink" \/ op'[p] = "DeleteGiftLink"))
             => \A id \in Codes, u \in Names :
                   (/\ DeleteRejection(id, u) # "none"
                    /\ ~(/\ last' = [op |-> "DeleteGiftLink",
                                      result |-> DeleteRejection(id, u)]
                         /\ UNCHANGED dbvars))
                      => ~DeleteGiftLink(p, id, u)]_vars

\* A user who does not own the active link was refused; the escrow is still
\* in the system account.
C16_Witness ==
    /\ last = [op |-> "DeleteGiftLink", result |-> "ErrNotOwner"]
    /\ \E c \in Codes :
          /\ giftLinks[c].exists /\ giftLinks[c].Active
          /\ giftLinks[c].RedeemedAt = NoTime
          /\ \E u \in Names : u # giftLinks[c].FromUser /\ users[u].exists
          /\ users["system"].exists
          /\ users["system"].BeanAmount >= giftLinks[c].Amount

\* C17 - Gift-link terminal states: a link that is inactive never becomes
\* active again, every link with a redemption stamp is inactive, and the
\* redeemer and the redemption time of a stamped link never change.
C17_TerminalStates ==
    [][\A c \in Codes :
          giftLinks[c].exists
             => /\ ~giftLinks[c].Active => ~giftLinks'[c].Active
                /\ giftLinks'[c].RedeemedAt # NoTime => ~giftLinks'[c].Active
                /\ giftLinks[c].RedeemedAt # NoTime
                      => /\ giftLinks'[c].RedeemedAt = giftLinks[c].RedeemedAt
                         /\ giftLinks'[c].RedeemedBy = giftLinks[c].RedeemedBy]_vars

\* The harvest h can be completed now: it exists, is not completed and has
\* an assignee.
Completable(h) ==
    /\ harvests[h].exists
    /\ ~harvests[h].Completed
    /\ harvests[h].AssignedUserID # NoUser

\* What a completion writes apart from the balances, for the call of p: the
\* call returns ok, its harvest was completable, exactly one ledger entry
\* from system to the assignee with the reward and the note "Harvest
\* completed: <title>" is appended and only the completed flag of the harvest
\* changes.
CompletionRecords(p) ==
    LET h == local[p].id
        a == harvests[h].AssignedUserID
        r == harvests[h].BeanAmount
    IN  /\ last' = [op |-> "CompleteHarvest", result |-> "ok"]
        /\ Completable(h)
        /\ users[a].exists
        /\ users'[a] = [exists |-> TRUE, BeanAmount |-> users[a].BeanAmount + r]
        /\ \A n \in Names \ {a, "system"} : users'[n] = users[n]
        /\ ledger' = Append(ledger,
              [FromUser |-> "system", ToUser |-> a, Amount |-> r,
               Note |-> "Harvest completed: " \o harvests[h].Title])
        /\ harvests' = [harvests EXCEPT ![h].Completed = TRUE]
        /\ giftLinks' = giftLinks

\* C18 as stated - Harvest completion effect: CompleteHarvest on an assigned,
\* uncompleted harvest with reward r is not rejected; its commit adds
\* exactly r to the assignee's balance, leaves the balance of system
\* unchanged (system being created with balance 0 when absent), appends the
\* one ledger entry and sets completed, in one step.
C18_CompletionEffect ==
    [][\A p \in Procs :
          /\ (pc[p] = "idle" /\ pc'[p] = "idle" /\ last'.op = "CompleteHarvest")
                => \A h \in HarvestIDs : Completable(h) => ~CompleteHarvest(p, h)
          /\ CompleteHarvestCommit(p)
                => /\ CompletionRecords(p)
                   /\ users'["system"] = [exists |-> TRUE,
                                          BeanAmount |-> SystemBeans]]_vars

\* C18 - Harvest completion effect, with the assignee that is the system
\* account: as above, and the balance of system is unchanged (created with
\* 0 when absent) exactly when system is not the assignee; when system is
\* the assignee its balance rises by r like any assignee's.
C18_CompletionEffectExplicit ==
    [][\A p \in Procs :
          /\ (pc[p] = "idle" /\ pc'[p] = "idle" /\ last'.op = "CompleteHarvest")
                => \A h \in HarvestIDs : Completable(h) => ~CompleteHarvest(p, h)
          /\ CompleteHarvestCommit(p)
                => /\ CompletionRecords(p)
                   /\ harvests[local[p].id].AssignedUserID # "system"
                         => users'["system"] = [exists |-> TRUE,
                                                BeanAmount |-> SystemBeans]]_vars

\* A harvest titled "corn" was completed for the system account: system
\* holds its bonus and the reward, and the ledger entry runs from system to
\* system.
C18_Witness ==
    /\ last = [op |-> "CompleteHarvest", result |-> "ok"]
    /\ Len(ledger) = 1
    /\ ledger[1] = [FromUser |-> "system", ToUser |-> "system", Amount |-> 1,
                    Note |-> "Harvest completed: corn"]
    /\ users["system"] = [exists |-> TRUE, BeanAmount |-> 2]
    /\ \E h \in HarvestIDs :
          /\ harvests[h].Completed
          /\ harvests[h].AssignedUserID = "system"

\* The check of CompleteHarvest that fails first for harvest h, "none" when
\* all pass: the completed check comes before the assignee check.
CompleteRejection(h) ==
    IF ~harvests[h].exists THEN "ErrHarvestNotFound"
    ELSE IF harvests[h].Completed THEN "ErrHarvestAlreadyCompleted"
    ELSE IF harvests[h].AssignedUserID = NoUser THEN "ErrNoAssignedUser"
    ELSE "none"

\* C19 - Harvest completion failures: CompleteHarvest returns HarvestNotFound
\* for an id no harvest has and NoAssignedUser for an uncompleted harvest
\* without assignee, the completed check coming first; a failing call
\* changes no balance, appends no ledger entry, creates no system account
\* and leaves the harvest as it is.
C19_CompletionFailures ==
    [][\A p \in Procs :
          (pc[p] = "idle" /\ (last'.op = "CompleteHarvest" \/ pc'[p] = "lockAssigned"))
             => \A h \in HarvestIDs :
                   (/\ CompleteRejection(h) # "none"
                    /\ ~(/\ last' = [op |-> "CompleteHarvest",
                                      result |-> CompleteRejection(h)]
                         /\ UNCHANGED dbvars))
                      => ~CompleteHarvest(p, h)]_vars

\* A completion was refused for a harvest that has no assignee: the harvest
\* is uncompleted, nothing was minted and there is no system account.
C19_Witness ==
    /\ last = [op |-> "CompleteHarvest", result |-> "ErrNoAssignedUser"]
    /\ \E h \in HarvestIDs :
          /\ harvests[h].exists /\ ~harvests[h].Completed
          /\ harvests[h].AssignedUserID = NoUser
    /\ ~users["system"].exists
    /\ Len(ledger) = 0

\* C20 - Harvest lifecycle is one-way: a completed harvest is completed in
\* every later state and its assigned account does not change after
\* completion.
C20_LifecycleOneWay ==
    [][\A h \in HarvestIDs :
          harvests[h].Completed
             => /\ harvests'[h].Completed
                /\ harvests'[h].AssignedUserID = harvests[h].AssignedUserID]_vars

\* The token string t carries a signature made with the configured secret.
ValidSignature(t) ==
    /\ t.alg = "HS256"
    /\ t.sig = <<"HS256", t.Username, t.iat, t.exp, jwtSecret>>

\* The records that hold the token string t and are not deleted.
LiveRecords(t) ==
    {i \in 1..Len(tokens) : tokens[i].Token = t /\ ~tokens[i].Deleted}

\* C21 - Token validity needs a live store record: a ValidateToken call
\* passes its signature step only for a token signed with the configured
\* secret, and its lookup only when a record with the same string is live
\* and unexpired; a deleted record stays deleted and its string is never
\* stored again, and a lookup that finds no live record returns
\* InvalidToken whatever the signature and its expiry say; a token whose
\* record is live and unexpired passes every step and yields the username
\* of its record.
C21_LiveRecordNeeded ==
    /\ [](\A i, j \in 1..Len(tokens) :
             tokens[i].Token = tokens[j].Token => i = j)
    /\ [][/\ \A i \in 1..Len(tokens) :
                /\ i <= Len(tokens') /\ tokens'[i].Token = tokens[i].Token
                /\ tokens[i].Deleted => tokens'[i].Deleted
          /\ \A p \in Procs :
                /\ (pc[p] = "idle" /\ pc'[p] = "findToken")
                      => /\ ValidSignature(local'[p].token)
                         /\ now < local'[p].token.exp
                /\ (pc[p] = "idle" /\ pc'[p] = "idle" /\ last'.op = "ValidateToken")
                      => \A t \in TokenInputs :
                            (ValidSignature(t) /\ now < t.exp) => ~ValidateToken(p, t)
                /\ pc[p] = "findToken"
                      => LET live == {i \in LiveRecords(local[p].token) :
                                         now < tokens[i].ExpiresAt}
                         IN  ValidateTokenFind(p)
                                => IF live = {}
                                   THEN /\ last' = [op |-> "ValidateToken",
                                                    result |-> "ErrInvalidToken"]
                                        /\ pc'[p] = "idle"
                                   ELSE /\ pc'[p] = "checkExpiry"
                                        /\ local'[p].id \in live
                /\ (/\ pc[p] = "checkExpiry"
                    /\ tokens[local[p].id].ExpiresAt >= now
                    /\ ValidateTokenExpiry(p))
                      => /\ last' = [op |-> "ValidateToken", result |-> "ok"]
                         /\ local[p].token.Username = tokens[local[p].id].UserID
                         /\ UNCHANGED <<dbvars, tokens>>]_vars

\* A call presents a token whose only record was deleted while the
\* signature and its expiry are still good: it passed the signature step
\* and is about to look the record up.
C21_Witness ==
    \E p \in Procs :
       /\ pc[p] = "findToken"
       /\ ValidSignature(local[p].token)
       /\ now < local[p].token.exp
       /\ LiveRecords(local[p].token) = {}
       /\ \E i \in 1..Len(tokens) :
             /\ tokens[i].Token = local[p].token
             /\ tokens[i].Deleted
             /\ now < tokens[i].ExpiresAt

\* C22 - Expired tokens are reported as ExpiredToken: a ValidateToken call
\* with a token whose signature verifies and whose record is in the store,
\* not deleted, with an expiry that has passed, does not return at its
\* first step with another result than ExpiredToken, and its lookup does
\* not return InvalidToken.
C22_ExpiredReported ==
    [][\A p \in Procs :
          /\ (pc[p] = "idle" /\ pc'[p] = "idle" /\ last'.op = "ValidateToken"
                /\ last'.result # "ErrExpiredToken")
                => \A t \in TokenInputs :
                      (/\ ValidSignature(t)
                       /\ \E i \in LiveRecords(t) : tokens[i].ExpiresAt < now)
                         => ~ValidateToken(p, t)
          /\ (/\ pc[p] = "findToken"
              /\ \E i \in LiveRecords(local[p].token) : tokens[i].ExpiresAt < now
              /\ ValidateTokenFind(p))
                => last'.result # "ErrInvalidToken"]_vars

\* The ids of the live records listed for user u in the token table tk.
ListedFor(tk, u) == {i \in 1..Len(tk) : tk[i].UserID = u /\ ~tk[i].Deleted}

\* C23 - Token deletion is scoped to the owner: DeleteToken(tokenId, u)
\* deletes the record only when it belongs to u; when it belongs to another
\* user every record is left as it is, so that user's token still has its
\* live record, and the tokens listed for every user other than u are
\* unchanged by any DeleteToken of u.
C23_DeleteScoped ==
    [][\A p \in Procs :
          (pc[p] = "idle" /\ last'.op = "DeleteToken")
             => \A id \in TokenIDs, u \in Names :
                   DeleteToken(p, id, u)
                      => /\ IF /\ users[u].exists
                               /\ id <= Len(tokens)
                               /\ tokens[id].UserID = u
                            THEN tokens' = [tokens EXCEPT ![id].Deleted = TRUE]
                            ELSE tokens' = tokens
                         /\ \A v \in Names \ {u} :
                               ListedFor(tokens', v) = ListedFor(tokens, v)]_vars

\* alice, who has an account, called DeleteToken on the id of bob's only
\* token: the call returned and the record is still live.
C23_Witness ==
    /\ last = [op |-> "DeleteToken", result |-> "ok"]
    /\ users["alice"].exists
    /\ Len(tokens) = 1
    /\ tokens[1].UserID = "bob"
    /\ ~tokens[1].Deleted
    /\ ListedFor(tokens, "bob") = {1}

\* The call of p commits a movement of beans out of an account.
DebitCommit(p) ==
    \/ TransferCommit(p) /\ last'.result = "ok"
    \/ CreateGiftLinkCommit(p)
    \/ RedeemGiftLinkCommit(p)
    \/ DeleteGiftLinkSave(p) /\ xfer[p] # NoXfer

C25_RoundTrip ==
    /\ [](export.exists =>
            /\ VerifyExportResult(signingKey, Marshal(export.doc),
                                  export.doc.Signature) = "valid"
            /\ VerifyExportDataResult(signingKey, export.doc) = "valid")
    /\ [][\A p \in Procs :
            /\ \A n \in Names :
                  (users[n].exists /\ ExportTransactions(p, n))
                     => pc'[p] = "findTransactions"
            /\ ExportTransactionsSign(p)
                  => /\ last' = [op |-> "ExportTransactions", result |-> "ok"]
                     /\ export'.exists
                     /\ export'.doc.Username = local[p].username
                     /\ export'.doc.Transactions = FindByUsername(local[p].username)]_vars

\* A snapshot holding a transfer without a note and a harvest payout with
\* one has been serialized and verified.
C25_Witness ==
    /\ export.exists
    /\ \E i \in 1..Len(export.doc.Transactions) : export.doc.Transactions[i].Note = ""
    /\ \E i \in 1..Len(export.doc.Transactions) : export.doc.Transactions[i].Note # ""
    /\ last = [op |-> "VerifyExport", result |-> "valid"]

\* C26: signature tamper-evidence.  For every exported snapshot, a copy
\* that differs in one signed member (user id, username, email, balance,
\* a member of a transaction, export time) sent with the original signature
\* is reported as not valid, by VerifyExport and by VerifyExportData; and
\* the untouched snapshot is reported as not valid by a service that is
\* configured with a different signing key.
C26_TamperEvident ==
    export.exists =>
        /\ \A d \in Tampered(export.doc) :
              /\ d # export.doc
              /\ d.Signature = export.doc.Signature
              /\ VerifyExportResult(signingKey, Marshal(d),
                                    export.doc.Signature) = "invalid"
              /\ VerifyExportDataResult(signingKey, d) = "invalid"
        /\ \A k \in SigningKeys \ {signingKey} :
              /\ VerifyExportResult(k, Marshal(export.doc),
                                    export.doc.Signature) = "invalid"
              /\ VerifyExportDataResult(k, export.doc) = "invalid"

\* A snapshot with a noted and an unnoted transaction is out, and a
\* verification of it has just been answered with "not valid".
C26_Witness ==
    /\ export.exists
    /\ \E i \in 1..Len(export.doc.Transactions) : export.doc.Transactions[i].Note = ""
    /\ \E i \in 1..Len(export.doc.Transactions) : export.doc.Transactions[i].Note # ""
    /\ last = [op |-> "VerifyExportData", result |-> "invalid"]

\* The documents verification is asked about: the exported snapshot and a
\* copy with the balance raised.
SnapshotCases == {export.doc, [export.doc EXCEPT !.TotalBeans = @ + 1]}

\* C27: verification outcomes are separated.  VerifyExport fails, with
\* InvalidExport, exactly on text that does not decode; VerifyExportData
\* fails, with InvalidExport, exactly on a snapshot whose signature member is
\* empty; every other input is answered without error, valid when the
\* signature is the one the service computes for the document and not valid
\* (also for an empty signature handed to VerifyExport) when it is another.
C27_OutcomesSeparated ==
    /\ [](export.exists =>
            \A k \in SigningKeys, x \in SnapshotCases, s \in SignatureInputs :
               /\ VerifyExportResult(k, Marshal(x), s) =
                     IF s = signExport(x, k) THEN "valid" ELSE "invalid"
               /\ \A j \in Malformed(Marshal(x)) :
                     VerifyExportResult(k, j, s) = "ErrInvalidExport"
               /\ VerifyExportDataResult(k, [x EXCEPT !.Signature = s]) =
                     IF s = <<>> THEN "ErrInvalidExport"
                     ELSE IF s = signExport(x, k) THEN "valid"
                     ELSE "invalid")
    /\ [][last' # last /\ last'.op \in {"VerifyExport", "VerifyExportData"}
            => /\ last'.result \in {"valid", "invalid", "ErrInvalidExport"}
               /\ UNCHANGED <<dbvars, othervars>>]_vars

\* A snapshot without its signature has just been refused by
\* VerifyExportData.
C27_Witness ==
    /\ export.exists
    /\ Len(export.doc.Transactions) > 0
    /\ last = [op |-> "VerifyExportData", result |-> "ErrInvalidExport"]

\* The operations that move beans and record the movement.
Movements == {"Transfer", "CreateGiftLink", "RedeemGiftLink", "DeleteGiftLink",
              "CompleteHarvest"}

\* C28: the ledger is append-only.  A step never removes or alters an entry
\* and adds at most one; the log changes only when a transfer, a gift-link
\* escrow, redemption or refund, or a harvest completion returns
\* successfully, and each of these adds exactly one entry (a DeleteGiftLink
\* adds one exactly when it refunds); failed operations, getOrCreate and
\* the balance override add none.
C28_AppendOnly ==
    [][/\ Len(ledger') >= Len(ledger)
       /\ Len(ledger') <= Len(ledger) + 1
       /\ SubSeq(ledger', 1, Len(ledger)) = ledger
       /\ ledger' # ledger => (last'.op \in Movements /\ last'.result = "ok")
       /\ \A p \in Procs :
             (pc[p] # "idle" /\ pc'[p] = "idle" /\ op[p] \in Movements
                 /\ last'.result = "ok")
                => Len(ledger') = Len(ledger) +
                      (IF op[p] = "DeleteGiftLink" /\ xfer[p] = NoXfer
                       THEN 0 ELSE 1)
       /\ \A p \in Procs :
             (pc'[p] = "idle" /\ last' # last
                 /\ (last'.result # "ok" \/ last'.op \notin Movements))
                => ledger' = ledger]_vars

\* The log holds an escrow and a payout by the system account, and the
\* balance override has just run.
C28_Witness ==
    /\ \E i \in 1..Len(ledger) : ledger[i].ToUser = "system"
    /\ \E i \in 1..Len(ledger) : ledger[i].FromUser = "system"
    /\ \E i \in 1..Len(ledger) : "system" \notin {ledger[i].FromUser, ledger[i].ToUser}
    /\ last = [op |-> "UpdateBalance", result |-> "ok"]

\* C29: every ledger entry has a positive amount, whichever operation
\* appended it, and every harvest has a reward of at least 1 once
\* CreateHarvest or UpdateHarvest has written it.
C29_PositiveAmounts ==
    /\ \A i \in 1..Len(ledger) : ledger[i].Amount > 0
    /\ \A h \in HarvestIDs : harvests[h].exists => harvests[h].BeanAmount >= 1

\* C30: assignment.  An AssignUser call that names an account that does not
\* exist fails with UserNotFound and leaves the harvest as it was; one that
\* names an existing account makes it the harvest's assignee; and no step of
\* an assignment changes a balance, the ledger or the completed flag of any
\* harvest.
C30_Assignment ==
    [][\A p \in Procs :
          (pc[p] = "saveHarvest" /\ op[p] = "AssignUser" /\ AssignUserSave(p))
             => /\ users' = users
                /\ ledger' = ledger
                /\ \A h \in HarvestIDs :
                      harvests'[h].Completed = harvests[h].Completed
                /\ IF users[local[p].username].exists
                   THEN /\ last' = [op |-> "AssignUser", result |-> "ok"]
                        /\ harvests'[local[p].id].AssignedUserID = local[p].username
                   ELSE /\ last' = [op |-> "AssignUser", result |-> "ErrUserNotFound"]
                        /\ harvests' = harvests]_vars

\* The expiry the policy table asks for, for a link created at time t.
ExpectedExpiry(e, t) ==
    CASE e = "1h" -> t + 1
      [] e = "24h" -> t + 24
      [] e = "7d" -> t + 168
      [] e = "30d" -> t + 720
      [] OTHER -> NoTime

\* C31: expiry policy mapping.  A CreateGiftLink call made at time t that
\* passes the amount and balance checks goes on whatever the policy is, and
\* the link it inserts carries the expiry t + 1 h, 24 h, 7 d or 30 d for
\* "1h", "24h", "7d", "30d" and no expiry for "never", "" and every other
\* string; the expiry of a link never changes afterwards, and a link without
\* expiry is never rejected as GiftLinkExpired.
C31_ExpiryPolicy ==
    [][/\ \A p \in Procs :
             (pc[p] = "idle" /\ last' = last /\ op'[p] = "CreateGiftLink")
                => \A n \in Payers, a \in Amounts, e \in ExpiryPolicies :
                      CreateGiftLink(p, n, a, e)
                         => local'[p].expiry = ExpectedExpiry(e, now)
       /\ \A p \in Procs :
             (pc[p] = "idle" /\ pc'[p] = "idle" /\ last' # last
                 /\ last'.op = "CreateGiftLink" /\ last'.result # "ok")
                => \A n \in Payers, a \in Amounts, e \in ExpiryPolicies :
                      CreateGiftLink(p, n, a, e)
                         => \/ a <= 0
                            \/ ~users[n].exists
                            \/ users[n].BeanAmount < a
       /\ \A p \in Procs :
             (pc[p] = "lockTo" /\ op[p] = "CreateGiftLink" /\ CreateGiftLinkCommit(p))
                => /\ last' = [op |-> "CreateGiftLink", result |-> "ok"]
                   /\ giftLinks'[generateUniqueCode].exists
                   /\ giftLinks'[generateUniqueCode].ExpiresAt = local[p].expiry
       /\ \A c \in Codes :
             giftLinks[c].exists
                => giftLinks'[c].ExpiresAt = giftLinks[c].ExpiresAt
       /\ \A p \in Procs :
             (pc[p] = "idle" /\ last' # last
                 /\ last' = [op |-> "RedeemGiftLink", result |-> "ErrGiftLinkExpired"])
                => \A c \in Codes, r \in Callers :
                      RedeemGiftLink(p, c, r)
                         => /\ giftLinks[c].ExpiresAt # NoTime
                            /\ now > giftLinks[c].ExpiresAt]_vars

\* A link without expiry has been redeemed when the clock had run out.
C31_Witness ==
    /\ now = MaxTime
    /\ \E c \in Codes : /\ giftLinks[c].exists
                        /\ giftLinks[c].ExpiresAt = NoTime
                        /\ giftLinks[c].RedeemedAt = MaxTime
    /\ last = [op |-> "RedeemGiftLink", result |-> "ok"]

\* Gift links that exist.
CreatedLinks == {c \in Codes : giftLinks[c].exists}

\* C32: the escrow leaves system at most once per link.  Under every
\* interleaving of RedeemGiftLink and DeleteGiftLink calls, a step that pays
\* a link's amount out of system (a redemption or a refund) acts on a link
\* that is still active and unredeemed and leaves it inactive, so system has
\* paid out at most as many times as there are links.
C32_EscrowLeavesOnce ==
    /\ [](Cardinality(SystemPayouts) <= Cardinality(CreatedLinks))
    /\ [][\A p \in Procs :
             (/\ op[p] \in {"RedeemGiftLink", "DeleteGiftLink"}
              /\ pc'[p] = "idle"
              /\ Len(ledger') = Len(ledger) + 1)
                => /\ giftLinks[local[p].id].Active
                   /\ giftLinks[local[p].id].RedeemedAt = NoTime
                   /\ ~giftLinks'[local[p].id].Active]_vars

\* Ledger entries written by harvest completions.
HarvestCompletions ==
    {i \in 1..Len(ledger) :
        /\ ledger[i].FromUser = "system"
        /\ ledger[i].Note \in {"Harvest completed: " \o t : t \in Titles}}

\* Harvests that exist.
CreatedHarvests == {h \in HarvestIDs : harvests[h].exists}

\* C33: the reward is minted at most once per harvest under concurrency.
\* Under every interleaving of CompleteHarvest with AssignUser and
\* UpdateHarvest calls on the same harvest, no step writes the completed flag
\* of a completed harvest back to false, a completion commits only on a
\* harvest that is not completed, and the ledger holds at most one
\* completion entry per harvest.
C33_MintedOnce ==
    /\ [](Cardinality(HarvestCompletions) <= Cardinality(CreatedHarvests))
    /\ [][/\ \A h \in HarvestIDs :
                harvests[h].Completed => harvests'[h].Completed
          /\ \A p \in Procs :
                (/\ op[p] = "CompleteHarvest"
                 /\ pc'[p] = "idle"
                 /\ Len(ledger') = Len(ledger) + 1)
                   => ~harvests[local[p].id].Completed]_vars

\* p holds an account row lock and waits for an account row that q holds.
AccountWait(p, q) ==
    /\ p # q
    /\ \E n \in Names : userLock[n] = p
    /\ \/ /\ pc[p] = "lockFrom"
          /\ users[xfer[p].fromUsername].exists
          /\ userLock[xfer[p].fromUsername] = q
       \/ /\ pc[p] = "lockTo"
          /\ users[xfer[p].toUsername].exists
          /\ userLock[xfer[p].toUsername] = q

Balances == [n \in Names |-> IF users[n].exists THEN users[n].BeanAmount ELSE 0]

\* The transfers of the ledger from entry i on, executed one after another
\* on the balances bal: every one passes Transfer's checks and moves its
\* amount; a transfer that would fail spoils the run.
RECURSIVE SerialRun(_, _)
SerialRun(bal, i) ==
    IF i > Len(ledger) THEN bal
    ELSE IF \/ ledger[i].Amount <= 0
            \/ ledger[i].FromUser = ledger[i].ToUser
            \/ bal[ledger[i].FromUser] < ledger[i].Amount
    THEN [n \in Names |-> -1]
    ELSE SerialRun([bal EXCEPT ![ledger[i].FromUser] = @ - ledger[i].Amount,
                               ![ledger[i].ToUser] = @ + ledger[i].Amount],
                   i + 1)

\* C35: concurrent transfers are serialized without lost updates.  In every
\* state the committed balances are those of the committed transfers
\* executed one after another in the order of the ledger, starting from the
\* creation bonus of the accounts that got one; so no update is lost and no
\* state shows a debit without its credit.
C35_Serialized ==
    \E bonus \in [Names -> 0..1] :
       /\ \A n \in Names : ~users[n].exists => bonus[n] = 0
       /\ SerialRun(bonus, 1) = Balances

\* Two transfers were in flight on a shared account: one has committed and
\* credited the account that the other, still holding its sender's lock, is
\* about to credit.
C35_Witness ==
    /\ last = [op |-> "Transfer", result |-> "ok"]
    /\ Len(ledger) >= 1
    /\ \E p \in Procs :
          /\ pc[p] = "lockTo" /\ op[p] = "Transfer"
          /\ xfer[p].toUsername = ledger[Len(ledger)].ToUser
          /\ xfer[p].fromUsername # ledger[Len(ledger)].FromUser
          /\ users[xfer[p].toUsername].BeanAmount >= 2

\* Gift links that are active and unredeemed: their escrow is still owed.
OutstandingLinks ==
    {c \in Codes : /\ giftLinks[c].exists /\ giftLinks[c].Active
                   /\ giftLinks[c].RedeemedAt = NoTime}

\* The sum of the amounts of the links in S.
RECURSIVE EscrowOwed(_)
EscrowOwed(S) ==
    IF S = {} THEN 0
    ELSE LET c == CHOOSE d \in S : TRUE
         IN giftLinks[c].Amount + EscrowOwed(S \ {c})

TransferFailed(r) ==
    /\ last' = [op |-> "Transfer", result |-> r]
    /\ UNCHANGED <<users, ledger>>

\* C37: the result of Transfer is that of the first failing check, in the
\* order amount <= 0 (InvalidAmount), from = to (SelfTransfer), sender absent
\* (UserNotFound), sender balance < amount (InsufficientBalance), recipient
\* absent with force off (RecipientNotFound); a call that passes them all
\* succeeds.  A failing call creates no account, whatever force is.
C37_FirstFailingCheck ==
    [][\A p \in Clients :
          /\ (/\ pc[p] = "idle"
              /\ \/ pc'[p] = "lockTo"
                 \/ last' # last /\ last'.op = "Transfer")
                => \A f \in Callers, t \in Names, a \in Amounts, force \in BOOLEAN :
                      Transfer(p, f, t, a, force)
                         => IF a <= 0 THEN TransferFailed("ErrInvalidAmount")
                            ELSE IF f = t THEN TransferFailed("ErrSelfTransfer")
                            ELSE IF ~users[f].exists
                            THEN TransferFailed("ErrUserNotFound")
                            ELSE IF users[f].BeanAmount < a
                            THEN TransferFailed("ErrInsufficientBalance")
                            ELSE /\ pc'[p] = "lockTo"
                                 /\ UNCHANGED <<users, ledger, last>>
          /\ TransferCommit(p)
                => IF ~users[xfer[p].toUsername].exists /\ ~xfer[p].force
                   THEN TransferFailed("ErrRecipientNotFound")
                   ELSE /\ last' = [op |-> "Transfer", result |-> "ok"]
                        /\ Len(ledger') = Len(ledger) + 1]_vars

\* An account that holds nothing has tried to pay while another account has
\* no row: the call was refused for the balance and the row is still absent.
C37_Witness ==
    /\ last = [op |-> "Transfer", result |-> "ErrInsufficientBalance"]
    /\ \E n \in Names : users[n] = [exists |-> TRUE, BeanAmount |-> 0]
    /\ \E n \in Names : ~users[n].exists
    /\ \A p \in Procs : pc[p] = "idle"
    /\ Len(ledger) = 1

\* The usernames that have an account row.
Accounts == {n \in Names : users[n].exists}

\* Process p is in GetOrCreateWallet between its read, which found no row
\* for username n, and its insert.
Inserting(p, n) == pc[p] = "create" /\ local[p].username = n

\* C38: account creation races mint at most one bonus.  Whatever the
\* interleaving of GetOrCreateWallet calls, forced transfers and redemptions
\* that create the same absent username, the account exists once they have
\* returned and is never removed or created again, a GetOrCreateWallet that
\* finds the row already inserted writes nothing, a step adds at most the one
\* bean of a first insert by GetOrCreateWallet to the sum of the balances,
\* and that sum never exceeds one bean per account.
C38_OneBonusPerUsername ==
    /\ [](GetTotalBeans(users) <= Cardinality(Accounts))
    /\ [][/\ \A n \in Names : users[n].exists => users'[n].exists
          /\ SumChange \in {0, 1}
          /\ \A p \in Procs, n \in Names :
                (Inserting(p, n) /\ pc'[p] = "idle")
                   => /\ users'[n].exists
                      /\ IF users[n].exists
                         THEN users' = users
                         ELSE /\ users' = [users EXCEPT ![n] =
                                             [exists |-> TRUE, BeanAmount |-> 1]]
                              /\ SumChange = 1
          /\ SumChange = 1
                => \E p \in Procs, n \in Names :
                      Inserting(p, n) /\ pc'[p] = "idle" /\ ~users[n].exists]_vars

\* A race is on: a GetOrCreateWallet that found no row for a username has
\* not inserted yet, and a forced transfer or a redemption has created that
\* account with exactly the amount it moved; the only bean in the bank is
\* the payer's bonus.
C38_Witness ==
    /\ Len(ledger) >= 1
    /\ \E p \in Procs, n \in Names :
          /\ Inserting(p, n)
          /\ ledger[Len(ledger)].ToUser = n
          /\ users[n] = [exists |-> TRUE, BeanAmount |-> ledger[Len(ledger)].Amount]
    /\ GetTotalBeans(users) = 1

\* The link row l is unredeemed and active and its expiry has passed.
ExpiredOutstanding(l) ==
    /\ l.exists /\ l.Active /\ l.RedeemedAt = NoTime
    /\ l.ExpiresAt # NoTime /\ now > l.ExpiresAt

\* Process p is in a DeleteGiftLink call of the owner that read the link
\* unredeemed, active and expired (the clock has not moved since the read).
DeletingExpired(p) ==
    /\ op[p] = "DeleteGiftLink"
    /\ ExpiredOutstanding(local[p].giftLink)

====
